---- MODULE Spec2Model ----
(***************************************************************************)
(* Model of the Farmease training pipeline (src/ml/ml_pipeline.py and      *)
(* src/ml/train_models.py) and of its cloud-sync and Telegram integrations.*)
(* Each component has its own specification:                               *)
(*   SpecPrep   prepare_dataframe                                          *)
(*   SpecFolds  build_walk_forward_folds                                   *)
(*   SpecSup    make_supervised_data                                       *)
(*   SpecGate   evaluate_relay_quality_gate                                *)
(*   SpecTrain  train_pipeline, one run into an empty output directory     *)
(*   SpecRuns   train_pipeline, run after run into one output directory    *)
(*   SpecStab   stability_adjusted_regression_loss / _classification_score *)
(*   SpecSan    sanitize_metrics                                           *)
(*   SpecAlign  align_columns (src/ml/predict_next.py)                     *)
(*   SpecTwin   two runs of the model searches on one input and seed       *)
(*   SpecSplit  the train/validation split of train_pipeline               *)
(*   SpecWfCls  run_walk_forward_classification                            *)
(*   SpecCloud  CloudSyncClient.sync_once (src/integrations/cloud_sync.py) *)
(*   SpecNotify TelegramNotifier.send_with_cooldown                        *)
(*   SpecTelegram  process_telegram_updates and the manual override        *)
(*              (src/app/dashboard.py)                                     *)
(* Numeric cell values are held in halves (Scale = 2) so that 0.5 is an    *)
(* integer of the model; timestamps are instants 1, 2, ...                 *)
(***************************************************************************)
EXTENDS Integers, Sequences, FiniteSets, TLC

VARIABLES
    \* prepare_dataframe
    raw_data_frame, data_frame, prep_pc,
    \* build_walk_forward_folds
    total_rows, n_splits, min_train_rows, min_valid_rows,
    folds, step, train_end, wf_pc,
    \* make_supervised_data
    feature_frame, horizon_steps, supervised, sup_pc,
    \* evaluate_relay_quality_gate
    train_y, valid_y, min_class_count, gate, gate_pc,
    \* train_pipeline
    cfg, run, tp_pc, split_index, relay_quality_gate, walk_forward_folds,
    reg, cls, fitted, disk, report,
    \* stability_adjusted_regression_loss / _classification_score
    stab_metrics, stability, stab_pc,
    \* sanitize_metrics
    san_report, san_result, san_pc,
    \* align_columns
    input_frame, expected_columns, aligned, align_pc,
    \* two runs of train_pipeline on one input and seed
    twin_input, twin_runs,
    \* the train/validation split of train_pipeline
    split_rows, split_train_ratio, split_frames, split_pc,
    \* run_walk_forward_classification
    cw_target, cw_folds, cw_loop, cw_result, cw_pc,
    \* CloudSyncClient.sync_once
    cs_client, cs_event_csv, cs_state_file, cs_payload, cs_posted, cs_result,
    \* TelegramNotifier.send_with_cooldown
    tn_enabled, tn_now, tn_last_sent, tn_dispatched, tn_call,
    \* dashboard: process_telegram_updates and the manual override
    tg_hold, tg_now, tg_pc, tg_next_offset, tg_offset, tg_pending, tg_seen, tg_override, tg_update, tg_writes, tg_sent, tg_returned

prepVars == <<raw_data_frame, data_frame, prep_pc>>
foldArgs == <<total_rows, n_splits, min_train_rows, min_valid_rows>>
foldVars == <<total_rows, n_splits, min_train_rows, min_valid_rows,
              folds, step, train_end, wf_pc>>

supVars == <<feature_frame, horizon_steps, supervised, sup_pc>>

gateVars == <<train_y, valid_y, min_class_count, gate, gate_pc>>

trainVars == <<cfg, run, tp_pc, split_index, relay_quality_gate, walk_forward_folds,
               reg, cls, fitted, disk, report>>

stabVars == <<stab_metrics, stability, stab_pc>>

sanVars == <<san_report, san_result, san_pc>>

alignVars == <<input_frame, expected_columns, aligned, align_pc>>

twinVars == <<twin_input, twin_runs>>

splitVars == <<split_rows, split_train_ratio, split_frames, split_pc>>

wfClsVars == <<cw_target, cw_folds, cw_loop, cw_result, cw_pc>>

cloudVars == <<cs_client, cs_event_csv, cs_state_file, cs_payload, cs_posted, cs_result>>

notifyVars == <<tn_enabled, tn_now, tn_last_sent, tn_dispatched, tn_call>>

telegramVars == <<tg_hold, tg_now, tg_pc, tg_next_offset, tg_offset, tg_pending, tg_seen, tg_override, tg_update, tg_writes, tg_sent, tg_returned>>

vars == <<prepVars, foldVars, supVars, gateVars, trainVars, stabVars, sanVars, alignVars, twinVars, splitVars, wfClsVars, cloudVars, notifyVars, telegramVars>>

\* what each component leaves alone
notPrep == <<foldVars, supVars, gateVars, trainVars, stabVars, sanVars, alignVars, twinVars, splitVars, wfClsVars, cloudVars, notifyVars, telegramVars>>
notFolds == <<prepVars, supVars, gateVars, trainVars, stabVars, sanVars, alignVars, twinVars, splitVars, wfClsVars, cloudVars, notifyVars, telegramVars>>
notSup == <<prepVars, foldVars, gateVars, trainVars, stabVars, sanVars, alignVars, twinVars, splitVars, wfClsVars, cloudVars, notifyVars, telegramVars>>
notGate == <<prepVars, foldVars, supVars, trainVars, stabVars, sanVars, alignVars, twinVars, splitVars, wfClsVars, cloudVars, notifyVars, telegramVars>>
notTrain == <<prepVars, foldVars, supVars, gateVars, stabVars, sanVars, alignVars, twinVars, splitVars, wfClsVars, cloudVars, notifyVars, telegramVars>>
notStab == <<prepVars, foldVars, supVars, gateVars, trainVars, sanVars, alignVars, twinVars, splitVars, wfClsVars, cloudVars, notifyVars, telegramVars>>
notSan == <<prepVars, foldVars, supVars, gateVars, trainVars, stabVars, alignVars, twinVars, splitVars, wfClsVars, cloudVars, notifyVars, telegramVars>>
notAlign == <<prepVars, foldVars, supVars, gateVars, trainVars, stabVars, sanVars, twinVars, splitVars, wfClsVars, cloudVars, notifyVars, telegramVars>>
notTwin == <<prepVars, foldVars, supVars, gateVars, trainVars, stabVars, sanVars, alignVars, splitVars, wfClsVars, cloudVars, notifyVars, telegramVars>>
notSplit == <<prepVars, foldVars, supVars, gateVars, trainVars, stabVars, sanVars, alignVars, twinVars, wfClsVars, cloudVars, notifyVars, telegramVars>>
notWfCls == <<prepVars, foldVars, supVars, gateVars, trainVars, stabVars, sanVars, alignVars, twinVars, splitVars, cloudVars, notifyVars, telegramVars>>
notCloud == <<prepVars, foldVars, supVars, gateVars, trainVars, stabVars, sanVars, alignVars, twinVars, splitVars, wfClsVars, notifyVars, telegramVars>>
notNotify == <<prepVars, foldVars, supVars, gateVars, trainVars, stabVars, sanVars, alignVars, twinVars, splitVars, wfClsVars, cloudVars, telegramVars>>
notTelegram == <<prepVars, foldVars, supVars, gateVars, trainVars, stabVars, sanVars, alignVars, twinVars, splitVars, wfClsVars, cloudVars, notifyVars>>

\* ---------------------------------------------------------------- bounds
MaxRawRows == 3
MaxTotalRows == 8
MaxSplits == 4
MaxMinTrain == 3
MaxMinValid == 3
MaxFeatureRows == 3
MaxHorizon == 3
MaxLabels == 3
MaxMinClassCount == 2
MaxRuns == 3
MaxDepth == 2
MaxColumns == 2
MaxExpected == 3

\* ------------------------------------------------------------- helpers
Range(s) == {s[i] : i \in 1..Len(s)}

SeqsUpTo(S, n) == UNION {[1..k -> S] : k \in 0..n}

Perms(n) == {p \in [1..n -> 1..n] : \A i, j \in 1..n : i # j => p[i] # p[j]}

\* the rows of s at the positions in keep, in order
KeepIdx(s, keep) ==
    LET F[i \in 0..Len(s)] ==
            IF i = 0 THEN <<>>
            ELSE IF i \in keep THEN Append(F[i - 1], s[i]) ELSE F[i - 1]
    IN F[Len(s)]

\* ------------------------------------------------- values and conversions
Scale == 2
NaN == -1000
NaT == 0

\* raw CSV text of a timestamp cell; two spellings of the same instant
RawTimestamps == {"bad", "00:00:01", "T00:00:01", "00:00:02"}
\* raw CSV text of a binary cell
RawCells == {"bad", "-1", "0.5", "1", "2"}

\* pd.to_datetime(..., errors="coerce")
to_datetime(text) ==
    CASE text = "00:00:01" -> 1
      [] text = "T00:00:01" -> 1
      [] text = "00:00:02" -> 2
      [] OTHER -> NaT

\* pd.to_numeric(..., errors="coerce"), in halves
to_numeric(text) ==
    CASE text = "-1" -> -2
      [] text = "0" -> 0
      [] text = "0.5" -> 1
      [] text = "1" -> 2
      [] text = "2" -> 4
      [] OTHER -> NaN

\* Series.clip(lower=0, upper=1); NaN stays NaN
clip(v) ==
    IF v = NaN THEN NaN
    ELSE IF v < 0 THEN 0
    ELSE IF v > 1 * Scale THEN 1 * Scale
    ELSE v

\* ------------------------------------------------------ prepare_dataframe
\* A raw row: the text of its cells and src, its position in the raw input.
RawRow(ts, cell, pos) == [timestamp |-> ts, relay_light |-> cell, src |-> pos]

RawFrames ==
    {[has_timestamp |-> TRUE,
      rows |-> [i \in 1..Len(ts) |-> RawRow(ts[i], "1", i)]]
        : ts \in SeqsUpTo(RawTimestamps, MaxRawRows)}
    \cup
    {[has_timestamp |-> TRUE,
      rows |-> [i \in 1..Len(ts) |-> RawRow(ts[i], cells[i], i)]]
        : ts \in [1..2 -> RawTimestamps], cells \in [1..2 -> RawCells]}
    \cup
    {[has_timestamp |-> FALSE,
      rows |-> [i \in 1..k |-> RawRow("bad", "1", i)]] : k \in 0..MaxRawRows}

\* data_frame["timestamp"] = pd.to_datetime(...); index = raw position - 1
parse_timestamps(rows) ==
    [i \in 1..Len(rows) |->
        [index |-> i - 1, timestamp |-> to_datetime(rows[i].timestamp),
         relay_light |-> rows[i].relay_light, src |-> rows[i].src]]

\* DataFrame.dropna(subset=["timestamp"])
dropna(rows) == KeepIdx(rows, {i \in 1..Len(rows) : rows[i].timestamp # NaT})

\* mutant: the rows are left in input order
sort_values_none(rows) == {rows}

\* DataFrame.sort_values("timestamp") uses the default kind="quicksort",
\* which is not stable: every arrangement in timestamp order is possible.

sort_values(rows) ==
    {[i \in 1..Len(rows) |-> rows[p[i]]] : p \in
        {q \in Perms(Len(rows)) :
            \A i, j \in 1..Len(rows) : i < j =>
                rows[q[i]].timestamp <= rows[q[j]].timestamp}}

\* DataFrame.reset_index(drop=True)
reset_index(rows) ==
    [i \in 1..Len(rows) |-> [rows[i] EXCEPT !.index = i - 1]]

\* _to_numeric over the binary columns, then clip(lower=0, upper=1)
coerce_binary(rows) ==
    [i \in 1..Len(rows) |->
        [rows[i] EXCEPT !.relay_light = clip(to_numeric(rows[i].relay_light))]]

\* DataFrame.drop_duplicates(subset=["timestamp"], keep="last")
drop_duplicates(rows) ==
    KeepIdx(rows, {i \in 1..Len(rows) :
        \A j \in 1..Len(rows) : j > i => rows[j].timestamp # rows[i].timestamp})

\* ------------------------------------------------ build_walk_forward_folds
Min2(a, b) == IF a < b THEN a ELSE b
Max2(a, b) == IF a > b THEN a ELSE b

\* the arguments of the unit test (220, 4, 80, 20)
TestFoldArgs == <<220, 4, 80, 20>>

FoldArgs ==
    ((0..MaxTotalRows) \X (0..MaxSplits) \X (0..MaxMinTrain) \X (0..MaxMinValid))
        \cup {TestFoldArgs}

slice(start, stop) == [start |-> start, stop |-> stop]

\* mutant: the training range runs to the end of the validation window
fold_leaky(t_end, v_end) ==
    [train |-> slice(0, v_end), valid |-> slice(t_end, v_end)]

\* mutant: a sliding window of min_train_rows rows instead of an expanding one
fold_sliding(t_end, v_end) ==
    [train |-> slice(t_end - min_train_rows, t_end), valid |-> slice(t_end, v_end)]

\* (slice(0, train_end), slice(train_end, valid_end))
fold_of(t_end, v_end) ==
    [train |-> slice(0, t_end), valid |-> slice(t_end, v_end)]

\* mutant: the step is not raised to min_valid_rows
step_unclamped(total, n, min_train, min_valid) == (total - min_train) \div n

\* step = max(min_valid_rows, remaining_rows // n_splits)
step_of(total, n, min_train, min_valid) ==
    Max2(min_valid, (total - min_train) \div n)

\* valid_end = min(train_end + step, total_rows)
valid_end == Min2(train_end + step, total_rows)

\* the while condition holds and the break is not taken
loop_continues ==
    /\ Len(folds) < n_splits
    /\ train_end + min_valid_rows <= total_rows
    /\ ~(valid_end - train_end < min_valid_rows)

FoldInit ==
    /\ \E args \in FoldArgs :
           /\ total_rows = args[1]
           /\ n_splits = args[2]
           /\ min_train_rows = args[3]
           /\ min_valid_rows = args[4]
    /\ folds = <<>>
    /\ step = 0
    /\ train_end = 0
    /\ wf_pc = "call"

FoldIdle ==
    /\ total_rows = 0 /\ n_splits = 0 /\ min_train_rows = 0 /\ min_valid_rows = 0
    /\ folds = <<>>
    /\ step = 0
    /\ train_end = 0
    /\ wf_pc = "idle"

\* the two early returns of build_walk_forward_folds
folds_return_empty ==
    /\ wf_pc = "call"
    /\ \/ total_rows < min_train_rows + min_valid_rows
       \/ n_splits < 2
    /\ wf_pc' = "return"
    /\ UNCHANGED <<foldArgs, folds, step, train_end>>
    /\ UNCHANGED notFolds

\* folds = [], step and train_end are set up
folds_enter_loop ==
    /\ wf_pc = "call"
    /\ ~(total_rows < min_train_rows + min_valid_rows)
    /\ ~(n_splits < 2)
    /\ step' = step_of(total_rows, n_splits, min_train_rows, min_valid_rows)
    /\ train_end' = min_train_rows
    /\ folds' = <<>>
    /\ wf_pc' = "loop"
    /\ UNCHANGED foldArgs
    /\ UNCHANGED notFolds

\* one iteration of the while loop that appends a fold
folds_append ==
    /\ wf_pc = "loop"
    /\ loop_continues
    /\ folds' = Append(folds, fold_of(train_end, valid_end))
    /\ train_end' = valid_end
    /\ UNCHANGED <<foldArgs, step, wf_pc>>
    /\ UNCHANGED notFolds

\* the while condition fails or the break is taken: return folds
folds_return ==
    /\ wf_pc = "loop"
    /\ ~loop_continues
    /\ wf_pc' = "return"
    /\ UNCHANGED <<foldArgs, folds, step, train_end>>
    /\ UNCHANGED notFolds

NextFolds ==
    folds_return_empty \/ folds_enter_loop \/ folds_append \/ folds_return

PrepInit ==
    /\ raw_data_frame \in RawFrames
    /\ data_frame = <<>>
    /\ prep_pc = "call"

PrepIdle ==
    /\ raw_data_frame = [has_timestamp |-> FALSE, rows |-> <<>>]
    /\ data_frame = <<>>
    /\ prep_pc = "idle"

\* prepare_dataframe, the frame has no timestamp column: ValueError
prepare_dataframe_raise ==
    /\ prep_pc = "call"
    /\ ~raw_data_frame.has_timestamp
    /\ prep_pc' = "ValueError"
    /\ UNCHANGED <<raw_data_frame, data_frame>>
    /\ UNCHANGED notPrep

\* prepare_dataframe, normal return
prepare_dataframe ==
    /\ prep_pc = "call"
    /\ raw_data_frame.has_timestamp
    /\ \E sorted \in sort_values(dropna(parse_timestamps(raw_data_frame.rows))) :
           data_frame' =
               reset_index(drop_duplicates(coerce_binary(reset_index(sorted))))
    /\ prep_pc' = "return"
    /\ UNCHANGED raw_data_frame
    /\ UNCHANGED notPrep

NextPrep == prepare_dataframe_raise \/ prepare_dataframe

\* ---------------------------------------------------- make_supervised_data
\* values of light_lux and of relay_light (0 and 1, in halves) in a frame
LightValues == {NaN, 10, 20, 30}
RelayValues == {NaN, 0, 1 * Scale}

\* the rows of a feature frame: dense 0-based index, increasing timestamps
FeatureRows(light, relay) ==
    [i \in 1..Len(light) |->
        [index |-> i - 1, timestamp |-> i,
         light_lux |-> light[i], relay_light |-> relay[i]]]

FeatureFrames ==
    UNION {{[columns |-> {"timestamp", "light_lux", "relay_light"},
             rows |-> FeatureRows(light, relay)] :
                light \in [1..n -> LightValues], relay \in [1..n -> RelayValues]} :
           n \in 0..MaxFeatureRows}
    \cup
    {[columns |-> cols,
      rows |-> FeatureRows(
                  [i \in 1..n |-> IF "light_lux" \in cols THEN 10 * i ELSE NaN],
                  [i \in 1..n |-> IF "relay_light" \in cols THEN 0 ELSE NaN])] :
        cols \in SUBSET {"timestamp", "light_lux", "relay_light"},
        n \in 0..MaxFeatureRows}

\* mutant: a horizon of 0 is let through
horizon_rejected_negative(h) == h < 0

\* if horizon_steps < 1: raise ValueError("horizon_steps must be >= 1")
horizon_rejected(h) == h < 1

\* "light_lux" not in columns or "relay_light" not in columns
targets_missing(frame) ==
    "light_lux" \notin frame.columns \/ "relay_light" \notin frame.columns

\* mutant: the targets are taken from the row h steps back
shift_back(column, periods) ==
    [i \in 1..Len(column) |->
        IF i + periods >= 1 /\ i + periods <= Len(column)
        THEN column[i + periods] ELSE NaN]

\* Series.shift(periods): row i takes the value of row i - periods, NaN
\* where there is no such row
shift(column, periods) ==
    [i \in 1..Len(column) |->
        IF i - periods >= 1 /\ i - periods <= Len(column)
        THEN column[i - periods] ELSE NaN]

notna(column) == [i \in 1..Len(column) |-> column[i] # NaN]

\* mutant: rows with either target present are kept
target_mask_either(t_light, t_relay) ==
    {i \in 1..Len(t_light) : notna(t_light)[i] \/ notna(t_relay)[i]}

\* target_mask = target_light.notna() & target_relay.notna()
target_mask_of(t_light, t_relay) ==
    {i \in 1..Len(t_light) : notna(t_light)[i] /\ notna(t_relay)[i]}

\* frame.loc[mask].drop(columns=["timestamp"], errors="ignore")
features_of(frame, mask) ==
    [columns |-> frame.columns \ {"timestamp"},
     rows |-> KeepIdx([i \in 1..Len(frame.rows) |->
                          [index |-> frame.rows[i].index,
                           light_lux |-> frame.rows[i].light_lux,
                           relay_light |-> frame.rows[i].relay_light]], mask)]

\* series.loc[mask], the series carrying the index of the frame
target_of(frame, column, mask) ==
    KeepIdx([i \in 1..Len(column) |->
                [index |-> frame.rows[i].index, value |-> column[i]]], mask)

NoSupervised == [features |-> [columns |-> {}, rows |-> <<>>],
                 target_light |-> <<>>, target_relay |-> <<>>]

SupInit ==
    /\ feature_frame \in FeatureFrames
    /\ horizon_steps \in -1..MaxHorizon
    /\ supervised = NoSupervised
    /\ sup_pc = "call"

SupIdle ==
    /\ feature_frame = [columns |-> {}, rows |-> <<>>]
    /\ horizon_steps = 0
    /\ supervised = NoSupervised
    /\ sup_pc = "idle"

\* make_supervised_data: horizon_steps < 1
supervised_raise_horizon ==
    /\ sup_pc = "call"
    /\ horizon_rejected(horizon_steps)
    /\ sup_pc' = "InvalidHorizon"
    /\ UNCHANGED <<feature_frame, horizon_steps, supervised>>
    /\ UNCHANGED notSup

\* make_supervised_data: a target column is absent
supervised_raise_columns ==
    /\ sup_pc = "call"
    /\ ~horizon_rejected(horizon_steps)
    /\ targets_missing(feature_frame)
    /\ sup_pc' = "MissingTargetColumns"
    /\ UNCHANGED <<feature_frame, horizon_steps, supervised>>
    /\ UNCHANGED notSup

\* make_supervised_data: normal return
make_supervised_data ==
    /\ sup_pc = "call"
    /\ ~horizon_rejected(horizon_steps)
    /\ ~targets_missing(feature_frame)
    /\ LET rows == feature_frame.rows
           light == [i \in 1..Len(rows) |-> rows[i].light_lux]
           relay == [i \in 1..Len(rows) |-> rows[i].relay_light]
           target_light == shift(light, -horizon_steps)
           target_relay == shift(relay, -horizon_steps)
           target_mask == target_mask_of(target_light, target_relay)
       IN supervised' =
              [features |-> features_of(feature_frame, target_mask),
               target_light |-> target_of(feature_frame, target_light, target_mask),
               target_relay |-> target_of(feature_frame, target_relay, target_mask)]
    /\ sup_pc' = "return"
    /\ UNCHANGED <<feature_frame, horizon_steps>>
    /\ UNCHANGED notSup

NextSup ==
    supervised_raise_horizon \/ supervised_raise_columns \/ make_supervised_data

\* --------------------------------------------- evaluate_relay_quality_gate
\* the relay classes 0 and 1 (in halves), and the labels of a series
ClassLabels == <<0, 1 * Scale>>
Labels == {NaN, 0, 1 * Scale}

\* the series of the unit test: train {0: 12, 1: 3}, validation {0: 8, 1: 1}
TestTrainY == [i \in 1..15 |-> IF i <= 12 THEN 0 ELSE 1 * Scale]
TestValidY == [i \in 1..9 |-> IF i <= 8 THEN 0 ELSE 1 * Scale]
TestMinClassCount == 5

\* Series.dropna().unique()
unique(series) == Range(series) \ {NaN}

\* Series.value_counts(dropna=True).to_dict()
value_counts(series) ==
    [label \in unique(series) |->
        Cardinality({i \in 1..Len(series) : series[i] = label})]

\* counts.get(class_label, 0)
count_get(counts, label) ==
    IF label \in DOMAIN counts THEN counts[label] ELSE 0

\* mutant: only an empty split counts as single-class
single_class_empty(series) == Cardinality(unique(series)) < 1

\* len(unique) < 2
single_class(series) == Cardinality(unique(series)) < 2

\* the issues of the two single-class tests
split_issues(train, valid) ==
    (IF single_class(train)
     THEN <<[split |-> "train", issue |-> "single class"]>> ELSE <<>>)
    \o
    (IF single_class(valid)
     THEN <<[split |-> "validation", issue |-> "single class"]>> ELSE <<>>)

\* the body of the loop over class_label in (0, 1)
class_issues(label, train_counts, valid_counts, min_count) ==
    (IF count_get(train_counts, label) < min_count
     THEN <<[split |-> "train", issue |-> "count too low", class |-> label,
             count |-> count_get(train_counts, label)]>> ELSE <<>>)
    \o
    (IF count_get(valid_counts, label) < min_count
     THEN <<[split |-> "validation", issue |-> "count too low", class |-> label,
             count |-> count_get(valid_counts, label)]>> ELSE <<>>)

\* evaluate_relay_quality_gate: (passed, issues, summary)
quality_gate_of(train, valid, min_count) ==
    LET train_counts == value_counts(train)
        valid_counts == value_counts(valid)
        issues == split_issues(train, valid)
                    \o class_issues(ClassLabels[1], train_counts, valid_counts, min_count)
                    \o class_issues(ClassLabels[2], train_counts, valid_counts, min_count)
    IN [passed |-> Len(issues) = 0,
        issues |-> issues,
        summary |-> [passed |-> Len(issues) = 0,
                     min_class_count |-> min_count,
                     train_counts |-> train_counts,
                     valid_counts |-> valid_counts,
                     issues |-> issues]]

NoGate == [passed |-> FALSE, issues |-> <<>>, summary |-> <<>>]

GateInit ==
    /\ \/ /\ train_y \in SeqsUpTo(Labels, MaxLabels)
          /\ valid_y \in SeqsUpTo(Labels, MaxLabels)
          /\ min_class_count \in 0..MaxMinClassCount
       \/ /\ train_y = TestTrainY
          /\ valid_y = TestValidY
          /\ min_class_count = TestMinClassCount
    /\ gate = NoGate
    /\ gate_pc = "call"

GateIdle ==
    /\ train_y = <<>>
    /\ valid_y = <<>>
    /\ min_class_count = 0
    /\ gate = NoGate
    /\ gate_pc = "idle"

evaluate_relay_quality_gate ==
    /\ gate_pc = "call"
    /\ gate' = quality_gate_of(train_y, valid_y, min_class_count)
    /\ gate_pc' = "return"
    /\ UNCHANGED <<train_y, valid_y, min_class_count>>
    /\ UNCHANGED notGate

NextGate == evaluate_relay_quality_gate

\* ----------------------------------------------------------- train_pipeline
None == "None"

\* build_walk_forward_folds as a function of its arguments
RECURSIVE folds_from(_, _, _, _, _, _)
folds_from(acc, t_end, stp, total, n, min_valid) ==
    LET v_end == Min2(t_end + stp, total)
    IN IF /\ Len(acc) < n
          /\ t_end + min_valid <= total
          /\ ~(v_end - t_end < min_valid)
       THEN folds_from(Append(acc, fold_of(t_end, v_end)), v_end, stp,
                       total, n, min_valid)
       ELSE acc

build_walk_forward_folds(total, n, min_train, min_valid) ==
    IF total < min_train + min_valid \/ n < 2 THEN <<>>
    ELSE folds_from(<<>>, min_train, step_of(total, n, min_train, min_valid),
                    total, n, min_valid)

\* int(len(features) * ratio), the ratio in percent; int() truncates toward 0
int_of_share(rows, percent) ==
    IF rows * percent >= 0 THEN (rows * percent) \div 100
    ELSE 0 - ((0 - rows * percent) \div 100)

\* the relay target of the supervised frame, by the shape of the recording
target_relay_of(rows, pattern) ==
    [i \in 1..rows |->
        CASE pattern = "alternating" -> (i % 2) * Scale
          [] pattern = "late_on" -> IF i > 90 THEN (i % 2) * Scale ELSE 0
          [] OTHER -> 0]

\* Series.iloc[start:stop], 0-based and half-open
iloc(series, start, stop) == SubSeq(series, start + 1, stop)

\* what load_dataset .. make_supervised_data raise, in the order of the code
load_error(c) ==
    CASE c.dataset = "missing" -> "DatasetNotFound"
      [] c.dataset = "empty" -> "DatasetEmpty"
      [] c.dataset = "no_timestamp" -> "MissingTimestampColumn"
      [] horizon_rejected(c.horizon_steps) -> "InvalidHorizon"
      [] c.dataset = "no_targets" -> "MissingTargetColumns"
      [] OTHER -> None

\* The runs explored.  A run that fails while loading, or on the row count,
\* is explored under the default options only.
DefaultCfg ==
    [dataset |-> "ok", horizon_steps |-> 1, rows_used |-> 40,
     pattern |-> "alternating", train_ratio |-> 80, walk_forward_splits |-> 4,
     min_relay_class_count |-> 10, strict_relay_quality |-> FALSE,
     model_family |-> "all", xgboost_available |-> FALSE]

LoadFailCfgs ==
    {[DefaultCfg EXCEPT !.dataset = d, !.horizon_steps = h] :
        d \in {"missing", "empty", "no_timestamp", "no_targets", "ok"},
        h \in {0, 1}}
    \cup {[DefaultCfg EXCEPT !.rows_used = 39, !.strict_relay_quality = st] :
            st \in BOOLEAN}

\* rows of the supervised frame and the walk-forward splits asked for:
\* no fold (40 rows, or 0 splits), one fold (100 rows), two folds (120 rows)
RowsAndSplits == {<<40, 4>>, <<100, 4>>, <<120, 4>>, <<120, 0>>}

\* the candidate family asked for and whether xgboost is installed; the
\* three-candidate registry is explored on the 40-row frame
FamilyAndXgboost(rows) ==
    {<<"all", FALSE>>, <<"xgboost", TRUE>>, <<"xgboost", FALSE>>, <<"other", FALSE>>}
        \cup (IF rows = 40 THEN {<<"all", TRUE>>} ELSE {})

FullCfgs ==
    UNION {{[DefaultCfg EXCEPT !.rows_used = rs[1], !.walk_forward_splits = rs[2],
                               !.pattern = pat, !.min_relay_class_count = mc,
                               !.strict_relay_quality = st,
                               !.model_family = fx[1], !.xgboost_available = fx[2]] :
                pat \in {"alternating", "late_on", "all_off"},
                mc \in {0, 10}, st \in BOOLEAN, fx \in FamilyAndXgboost(rs[1])} :
           rs \in RowsAndSplits}

\* ---- candidate registries
\* build_regression_candidates / build_classification_candidates: registry order
build_candidates(xgboost_available) ==
    <<"hist_gradient_boosting", "random_forest">>
        \o (IF xgboost_available THEN <<"xgboost">> ELSE <<>>)

\* what select_candidate_models raises, None when it returns
select_error(candidates, model_family) ==
    CASE model_family = "all" -> None
      [] model_family = "xgboost" ->
            IF "xgboost" \notin Range(candidates) THEN "XGBoostUnavailable" ELSE None
      [] OTHER -> "UnsupportedModelFamily"

select_candidate_models(candidates, model_family) ==
    IF model_family = "all" THEN candidates ELSE <<"xgboost">>

\* ---- metrics, in hundredths; NoValue is Python's None where a number may stand
NoValue == -999999
Infinity == 1000000
MaeValues == {1000, 1050}
FoldMaeValues == {800, 1200}
F1Values == {79, 80}
FoldF1Values == {70, 90}

RECURSIVE Sum(_)
Sum(values) == IF values = <<>> THEN 0 ELSE Head(values) + Sum(Tail(values))

\* the integer square root
Isqrt(x) == CHOOSE r \in 0..x : r * r <= x /\ (r + 1) * (r + 1) > x

\* _mean_std: np.mean and np.std (population) of the fold values
mean_std(values) ==
    IF values = <<>> THEN [mean |-> NoValue, std |-> NoValue]
    ELSE LET mean == Sum(values) \div Len(values)
             squares == [i \in 1..Len(values) |-> (values[i] - mean) * (values[i] - mean)]
         IN [mean |-> mean, std |-> Isqrt(Sum(squares) \div Len(values))]

\* mean + 0.25 * (std or 0.0), None when the mean is None
stability_adjusted_regression_loss(metrics) ==
    IF metrics.mean = NoValue THEN NoValue
    ELSE LET mae_std == IF metrics.std = NoValue THEN 0 ELSE metrics.std
         IN metrics.mean + (25 * mae_std) \div 100

\* mutant: the std is left out of the classification score
stability_adjusted_classification_score_mean(metrics) ==
    IF metrics.mean = NoValue THEN NoValue ELSE metrics.mean

\* mean - 0.10 * (std or 0.0), None when the mean is None
stability_adjusted_classification_score(metrics) ==
    IF metrics.mean = NoValue THEN NoValue
    ELSE LET f1_std == IF metrics.std = NoValue THEN 0 ELSE metrics.std
         IN metrics.mean - (10 * f1_std) \div 100

\* run_walk_forward_regression / _classification: the summary of the folds
\* that ran, given the metric of each
walk_forward_summary(fold_values, skipped) ==
    [folds_run |-> Len(fold_values), folds_skipped |-> skipped,
     metrics |-> mean_std(fold_values), by_fold |-> fold_values]

NoWalkForward == [folds_run |-> 0, folds_skipped |-> 0,
                  metrics |-> [mean |-> NoValue, std |-> NoValue], by_fold |-> <<>>]

\* the folds whose training range holds two classes (fold_train_y.nunique() >= 2)
runnable_folds(fold_list, target) ==
    KeepIdx(fold_list, {k \in 1..Len(fold_list) :
        Cardinality(unique(iloc(target, fold_list[k].train.start,
                                         fold_list[k].train.stop))) >= 2})

\* mutant: one fold is enough for the stability-adjusted loss
regression_selection_one_fold(mae, has_folds, walk_forward) ==
    LET stable == stability_adjusted_regression_loss(walk_forward.metrics)
    IN IF has_folds /\ walk_forward.folds_run >= 1 /\ stable # NoValue
       THEN [score |-> stable, mode |-> "walk_forward_stability"]
       ELSE [score |-> mae, mode |-> "holdout_mae"]

\* the selection loss and mode of a scored regression candidate
regression_selection(mae, has_folds, walk_forward) ==
    LET stable == stability_adjusted_regression_loss(walk_forward.metrics)
    IN IF has_folds /\ walk_forward.folds_run >= 2 /\ stable # NoValue
       THEN [score |-> stable, mode |-> "walk_forward_stability"]
       ELSE [score |-> mae, mode |-> "holdout_mae"]

\* mutant: the stability score is used only when it is above the holdout f1
classification_selection_if_higher(f1, has_folds, walk_forward) ==
    LET stable == stability_adjusted_classification_score(walk_forward.metrics)
    IN IF has_folds /\ walk_forward.folds_run >= 2 /\ stable # NoValue /\ stable > f1
       THEN [score |-> stable, mode |-> "walk_forward_stability"]
       ELSE [score |-> f1, mode |-> "holdout_f1"]

\* the selection score and mode of a scored classification candidate
classification_selection(f1, has_folds, walk_forward) ==
    LET stable == stability_adjusted_classification_score(walk_forward.metrics)
    IN IF has_folds /\ walk_forward.folds_run >= 2 /\ stable # NoValue
       THEN [score |-> stable, mode |-> "walk_forward_stability"]
       ELSE [score |-> f1, mode |-> "holdout_f1"]

\* the locals of fit_best_regressor / fit_best_classifier before the loop
search_start(candidates, first_score, first_mode) ==
    [todo |-> candidates, scores |-> <<>>, warnings |-> <<>>,
     best_name |-> None, best_score |-> first_score, selection_mode |-> first_mode,
     best_walk_forward |-> NoWalkForward, skip_reason |-> None]

NoSearch == search_start(<<>>, 0, None)

\* except: warnings.append(...); continue
candidate_skipped(search) ==
    [search EXCEPT !.todo = Tail(@), !.warnings = Append(@, Head(search.todo))]

\* scores[model_name] = metric_entry, and the incumbent replaced when better
candidate_scored(search, holdout, walk_forward, selection, better) ==
    LET entry == [name |-> Head(search.todo), holdout |-> holdout,
                  walk_forward |-> walk_forward.metrics,
                  walk_forward_folds_run |-> walk_forward.folds_run,
                  selection_score |-> selection.score,
                  selection_mode |-> selection.mode]
        scored == [search EXCEPT !.todo = Tail(@), !.scores = Append(@, entry)]
    IN IF better
       THEN [scored EXCEPT !.best_name = Head(search.todo),
                           !.best_score = selection.score,
                           !.selection_mode = selection.mode,
                           !.best_walk_forward = walk_forward]
       ELSE scored

\* ---- the state of a run
MinimumRows == 40

NoReport ==
    [written |-> FALSE, rows_used |-> 0, train_rows |-> 0, valid_rows |-> 0,
     best_models |-> [light_forecast |-> None, relay_light |-> None],
     model_selection |-> [light_forecast |-> None, relay_light |-> None],
     metrics |-> [regression |-> <<>>, classification |-> <<>>],
     walk_forward |-> [generated_folds |-> 0, regression |-> NoWalkForward,
                       classification |-> NoWalkForward],
     quality_gate |-> NoGate, notes |-> <<>>]

\* the output directory: what each artifact file holds, and the run that
\* wrote it last (0: no run)
EmptyDisk ==
    [output_dir |-> FALSE, light_forecast_model |-> None,
     relay_light_model |-> None, feature_columns |-> FALSE,
     training_report |-> NoReport,
     written_by |-> [light_forecast_model |-> 0, relay_light_model |-> 0,
                     feature_columns |-> 0, training_report |-> 0]]

TrainInit ==
    /\ cfg \in LoadFailCfgs \cup FullCfgs
    /\ run = 1
    /\ tp_pc = "call"
    /\ split_index = 0
    /\ relay_quality_gate = NoGate
    /\ walk_forward_folds = <<>>
    /\ reg = NoSearch
    /\ cls = NoSearch
    /\ fitted = [regression |-> {}, classification |-> {}]
    /\ disk = EmptyDisk
    /\ report = NoReport

TrainIdle ==
    /\ cfg = DefaultCfg
    /\ run = 0
    /\ tp_pc = "idle"
    /\ split_index = 0
    /\ relay_quality_gate = NoGate
    /\ walk_forward_folds = <<>>
    /\ reg = NoSearch
    /\ cls = NoSearch
    /\ fitted = [regression |-> {}, classification |-> {}]
    /\ disk = EmptyDisk
    /\ report = NoReport

target_relay == target_relay_of(cfg.rows_used, cfg.pattern)
train_y_relay == iloc(target_relay, 0, split_index)
valid_y_relay == iloc(target_relay, split_index, cfg.rows_used)

\* mutant: the split is raised to 10 training rows only
split_index_low_floor(rows, percent) ==
    Min2(Max2(int_of_share(rows, percent), 10), rows - 10)

\* split_index = min(max(int(len * ratio), 20), len - 10)
split_index_of(rows, percent) ==
    Min2(Max2(int_of_share(rows, percent), 20), rows - 10)

\* output_dir.mkdir, then load_dataset .. make_supervised_data raises
train_load_raise ==
    /\ tp_pc = "call"
    /\ load_error(cfg) # None
    /\ disk' = [disk EXCEPT !.output_dir = TRUE]
    /\ tp_pc' = load_error(cfg)
    /\ UNCHANGED <<cfg, run, split_index, relay_quality_gate, walk_forward_folds,
                   reg, cls, fitted, report>>
    /\ UNCHANGED notTrain

\* mutant: a frame of exactly minimum_rows rows is refused too
insufficient_rows_inclusive(rows) == rows <= MinimumRows

\* if len(features) < minimum_rows
insufficient_rows(rows) == rows < MinimumRows

\* mutant: feature_columns.json is written before the row count is checked
train_insufficient_raise_after_columns ==
    /\ tp_pc = "call"
    /\ load_error(cfg) = None
    /\ insufficient_rows(cfg.rows_used)
    /\ disk' = [disk EXCEPT !.output_dir = TRUE, !.feature_columns = TRUE,
                            !.written_by.feature_columns = run]
    /\ tp_pc' = "InsufficientData"
    /\ UNCHANGED <<cfg, run, split_index, relay_quality_gate, walk_forward_folds,
                   reg, cls, fitted, report>>
    /\ UNCHANGED notTrain

\* fewer than minimum_rows supervised rows
train_insufficient_raise ==
    /\ tp_pc = "call"
    /\ load_error(cfg) = None
    /\ insufficient_rows(cfg.rows_used)
    /\ disk' = [disk EXCEPT !.output_dir = TRUE]
    /\ tp_pc' = "InsufficientData"
    /\ UNCHANGED <<cfg, run, split_index, relay_quality_gate, walk_forward_folds,
                   reg, cls, fitted, report>>
    /\ UNCHANGED notTrain

\* the split, the quality gate and the walk-forward folds
train_split_and_gate ==
    /\ tp_pc = "call"
    /\ load_error(cfg) = None
    /\ ~insufficient_rows(cfg.rows_used)
    /\ disk' = [disk EXCEPT !.output_dir = TRUE]
    /\ LET split == split_index_of(cfg.rows_used, cfg.train_ratio)
       IN /\ split_index' = split
          /\ relay_quality_gate' =
                 quality_gate_of(iloc(target_relay, 0, split),
                                 iloc(target_relay, split, cfg.rows_used),
                                 Max2(1, cfg.min_relay_class_count))
    /\ walk_forward_folds' =
           build_walk_forward_folds(cfg.rows_used, cfg.walk_forward_splits,
                                    Max2(80, int_of_share(cfg.rows_used, 25)),
                                    Max2(20, int_of_share(cfg.rows_used, 8)))
    /\ tp_pc' = "gated"
    /\ UNCHANGED <<cfg, run, reg, cls, fitted, report>>
    /\ UNCHANGED notTrain

\* if strict_relay_quality and not relay_quality_ok: raise
strict_gate_raises == cfg.strict_relay_quality /\ ~relay_quality_gate.passed

train_strict_raise ==
    /\ tp_pc = "gated"
    /\ strict_gate_raises
    /\ tp_pc' = "QualityGateFailed"
    /\ UNCHANGED <<cfg, run, split_index, relay_quality_gate, walk_forward_folds,
                   reg, cls, fitted, disk, report>>
    /\ UNCHANGED notTrain

\* ---- fit_best_regressor
regressor_select_raise ==
    /\ tp_pc = "gated"
    /\ ~strict_gate_raises
    /\ select_error(build_candidates(cfg.xgboost_available), cfg.model_family) # None
    /\ tp_pc' = select_error(build_candidates(cfg.xgboost_available), cfg.model_family)
    /\ UNCHANGED <<cfg, run, split_index, relay_quality_gate, walk_forward_folds,
                   reg, cls, fitted, disk, report>>
    /\ UNCHANGED notTrain

regressor_enter ==
    /\ tp_pc = "gated"
    /\ ~strict_gate_raises
    /\ select_error(build_candidates(cfg.xgboost_available), cfg.model_family) = None
    /\ reg' = search_start(
                 select_candidate_models(build_candidates(cfg.xgboost_available),
                                         cfg.model_family),
                 Infinity, "holdout_mae")
    /\ tp_pc' = "regression"
    /\ UNCHANGED <<cfg, run, split_index, relay_quality_gate, walk_forward_folds,
                   cls, fitted, disk, report>>
    /\ UNCHANGED notTrain

\* pipeline.fit on the holdout training range raises: warning, continue
regressor_candidate_skip ==
    /\ tp_pc = "regression"
    /\ reg.todo # <<>>
    /\ reg' = candidate_skipped(reg)
    /\ fitted' = [fitted EXCEPT !.regression = @ \cup {Head(reg.todo)}]
    /\ UNCHANGED <<cfg, run, tp_pc, split_index, relay_quality_gate, walk_forward_folds,
                   cls, disk, report>>
    /\ UNCHANGED notTrain

\* the holdout fit succeeds and a fold re-fit inside
\* run_walk_forward_regression raises: nothing catches it
regressor_candidate_abort ==
    /\ tp_pc = "regression"
    /\ reg.todo # <<>>
    /\ walk_forward_folds # <<>>
    /\ fitted' = [fitted EXCEPT !.regression = @ \cup {Head(reg.todo)}]
    /\ tp_pc' = "RegressionFitError"
    /\ UNCHANGED <<cfg, run, split_index, relay_quality_gate, walk_forward_folds,
                   reg, cls, disk, report>>
    /\ UNCHANGED notTrain

\* mutant: an equal loss replaces the incumbent
regression_better_or_equal(score, best) == score <= best

\* if model_selection_loss < best_selection_loss
regression_better(score, best) == score < best

\* the holdout fit and every fold re-fit succeed: the candidate is scored
regressor_candidate_score ==
    /\ tp_pc = "regression"
    /\ reg.todo # <<>>
    /\ \E mae \in MaeValues,
          fold_maes \in [1..Len(walk_forward_folds) -> FoldMaeValues] :
           LET walk_forward == walk_forward_summary(fold_maes, 0)
               selection == regression_selection(mae, walk_forward_folds # <<>>,
                                                 walk_forward)
           IN reg' = candidate_scored(reg, mae, walk_forward, selection,
                         regression_better(selection.score, reg.best_score))
    /\ fitted' = [fitted EXCEPT !.regression = @ \cup {Head(reg.todo)}]
    /\ UNCHANGED <<cfg, run, tp_pc, split_index, relay_quality_gate, walk_forward_folds,
                   cls, disk, report>>
    /\ UNCHANGED notTrain

\* if best_pipeline is None: raise RuntimeError
regressor_raise_no_model ==
    /\ tp_pc = "regression"
    /\ reg.todo = <<>>
    /\ reg.best_name = None
    /\ tp_pc' = "NoViableModel"
    /\ UNCHANGED <<cfg, run, split_index, relay_quality_gate, walk_forward_folds,
                   reg, cls, fitted, disk, report>>
    /\ UNCHANGED notTrain

regressor_return ==
    /\ tp_pc = "regression"
    /\ reg.todo = <<>>
    /\ reg.best_name # None
    /\ tp_pc' = "classifier"
    /\ UNCHANGED <<cfg, run, split_index, relay_quality_gate, walk_forward_folds,
                   reg, cls, fitted, disk, report>>
    /\ UNCHANGED notTrain

\* ---- fit_best_classifier, or the classifier skipped by the gate
\* mutant: the classifier search does not look at the gate
classifier_allowed_always(quality_gate) == TRUE

\* if relay_quality_ok:
classifier_allowed(quality_gate) == quality_gate.passed

skipped_search(reason) == [NoSearch EXCEPT !.selection_mode = "holdout_f1",
                                           !.skip_reason = reason]

\* else: (None, None, {}, "Skipping relay_light classifier: quality gate
\* failed.", "holdout_f1", [])
classifier_gate_skip ==
    /\ tp_pc = "classifier"
    /\ ~classifier_allowed(relay_quality_gate)
    /\ cls' = skipped_search("quality gate failed")
    /\ tp_pc' = "persist"
    /\ UNCHANGED <<cfg, run, split_index, relay_quality_gate, walk_forward_folds,
                   reg, fitted, disk, report>>
    /\ UNCHANGED notTrain

\* fit_best_classifier up to the loop: a single-class training split returns
\* at once with a skip reason
classifier_enter ==
    /\ tp_pc = "classifier"
    /\ classifier_allowed(relay_quality_gate)
    /\ IF single_class(train_y_relay)
       THEN /\ cls' = skipped_search("one class in training split")
            /\ tp_pc' = "persist"
       ELSE /\ cls' = search_start(
                         select_candidate_models(
                             build_candidates(cfg.xgboost_available), cfg.model_family),
                         -100, "holdout_f1")
            /\ tp_pc' = "classification"
    /\ UNCHANGED <<cfg, run, split_index, relay_quality_gate, walk_forward_folds,
                   reg, fitted, disk, report>>
    /\ UNCHANGED notTrain

classifier_candidate_skip ==
    /\ tp_pc = "classification"
    /\ cls.todo # <<>>
    /\ cls' = candidate_skipped(cls)
    /\ fitted' = [fitted EXCEPT !.classification = @ \cup {Head(cls.todo)}]
    /\ UNCHANGED <<cfg, run, tp_pc, split_index, relay_quality_gate, walk_forward_folds,
                   reg, disk, report>>
    /\ UNCHANGED notTrain

\* a fold re-fit inside run_walk_forward_classification raises
classifier_candidate_abort ==
    /\ tp_pc = "classification"
    /\ cls.todo # <<>>
    /\ runnable_folds(walk_forward_folds, target_relay) # <<>>
    /\ fitted' = [fitted EXCEPT !.classification = @ \cup {Head(cls.todo)}]
    /\ tp_pc' = "ClassifierFitError"
    /\ UNCHANGED <<cfg, run, split_index, relay_quality_gate, walk_forward_folds,
                   reg, cls, disk, report>>
    /\ UNCHANGED notTrain

\* if model_selection_score > best_selection_score
classification_better(score, best) == score > best

classifier_candidate_score ==
    /\ tp_pc = "classification"
    /\ cls.todo # <<>>
    /\ LET runnable == runnable_folds(walk_forward_folds, target_relay)
       IN \E f1 \in F1Values, fold_f1s \in [1..Len(runnable) -> FoldF1Values] :
           LET walk_forward ==
                   walk_forward_summary(fold_f1s,
                                        Len(walk_forward_folds) - Len(runnable))
               selection == classification_selection(f1, walk_forward_folds # <<>>,
                                                     walk_forward)
           IN cls' = candidate_scored(cls, f1, walk_forward, selection,
                         classification_better(selection.score, cls.best_score))
    /\ fitted' = [fitted EXCEPT !.classification = @ \cup {Head(cls.todo)}]
    /\ UNCHANGED <<cfg, run, tp_pc, split_index, relay_quality_gate, walk_forward_folds,
                   reg, disk, report>>
    /\ UNCHANGED notTrain

\* the end of the loop: without a best pipeline the scores are dropped and a
\* skip reason is returned
classifier_return ==
    /\ tp_pc = "classification"
    /\ cls.todo = <<>>
    /\ cls' = IF cls.best_name = None
              THEN [cls EXCEPT !.scores = <<>>, !.selection_mode = "holdout_f1",
                               !.skip_reason = "no classification model trained"]
              ELSE cls
    /\ tp_pc' = "persist"
    /\ UNCHANGED <<cfg, run, split_index, relay_quality_gate, walk_forward_folds,
                   reg, fitted, disk, report>>
    /\ UNCHANGED notTrain

\* ---- artifacts and report
\* joblib.dump of the regressor, of the classifier if there is one, and
\* feature_columns.json
persist_models ==
    /\ tp_pc = "persist"
    /\ disk' = [disk EXCEPT !.light_forecast_model = reg.best_name,
                            !.relay_light_model =
                                IF cls.best_name # None THEN cls.best_name ELSE @,
                            !.feature_columns = TRUE,
                            !.written_by =
                                [@ EXCEPT !.light_forecast_model = run,
                                          !.relay_light_model =
                                              IF cls.best_name # None THEN run ELSE @,
                                          !.feature_columns = run]]
    /\ tp_pc' = "report"
    /\ UNCHANGED <<cfg, run, split_index, relay_quality_gate, walk_forward_folds,
                   reg, cls, fitted, report>>
    /\ UNCHANGED notTrain

\* sanitize_value on a number: a non-finite value becomes None
sanitize_value(value) ==
    IF value \in {NaN, Infinity, -Infinity} THEN NoValue ELSE value

sanitize_summary(summary) ==
    [summary EXCEPT !.metrics = [mean |-> sanitize_value(@.mean),
                                 std |-> sanitize_value(@.std)],
                    !.by_fold = [k \in 1..Len(@) |-> sanitize_value(@[k])]]

sanitize_scores(scores) ==
    [k \in 1..Len(scores) |->
        [scores[k] EXCEPT !.holdout = sanitize_value(@),
                          !.walk_forward = [mean |-> sanitize_value(@.mean),
                                            std |-> sanitize_value(@.std)]]]

\* sanitize_metrics over the numbers of the report
sanitize_metrics(rep) ==
    [rep EXCEPT !.metrics = [regression |-> sanitize_scores(@.regression),
                             classification |-> sanitize_scores(@.classification)],
                !.walk_forward =
                    [@ EXCEPT !.regression = sanitize_summary(@),
                              !.classification = sanitize_summary(@)]]

note(kind, detail) == [kind |-> kind, detail |-> detail]

report_notes ==
    <<note("note", "time-ordered split"), note("note", "selection policy")>>
    \o [k \in 1..Len(reg.warnings) |-> note("skipped regression model", reg.warnings[k])]
    \o [k \in 1..Len(cls.warnings) |-> note("skipped classification model", cls.warnings[k])]
    \o (IF single_class(valid_y_relay)
        THEN <<note("note", "single-class validation")>> ELSE <<>>)
    \o (IF ~relay_quality_gate.passed
        THEN <<note("note", "quality gate failed")>> ELSE <<>>)
    \o (IF /\ walk_forward_folds # <<>>
           /\ cls.best_name # None
           /\ runnable_folds(walk_forward_folds, target_relay) = <<>>
        THEN <<note("note", "zero runnable folds")>> ELSE <<>>)
    \o (IF cls.skip_reason # None
        THEN <<note("skip_reason", cls.skip_reason)>> ELSE <<>>)

\* the report dictionary of train_pipeline
build_report ==
    [written |-> TRUE,
     rows_used |-> cfg.rows_used,
     train_rows |-> Len(train_y_relay),
     valid_rows |-> Len(valid_y_relay),
     best_models |-> [light_forecast |-> reg.best_name, relay_light |-> cls.best_name],
     model_selection |-> [light_forecast |-> reg.selection_mode,
                          relay_light |-> cls.selection_mode],
     metrics |-> [regression |-> reg.scores, classification |-> cls.scores],
     walk_forward |->
         [generated_folds |-> Len(walk_forward_folds),
          regression |-> IF walk_forward_folds # <<>>
                         THEN reg.best_walk_forward ELSE NoWalkForward,
          classification |-> IF walk_forward_folds # <<>> /\ cls.best_name # None
                             THEN cls.best_walk_forward ELSE NoWalkForward],
     quality_gate |-> relay_quality_gate,
     notes |-> report_notes]

\* the folds are run again on the chosen pipelines for the report, after the
\* artifacts are on disk, and a fold re-fit raises
report_walk_forward_abort ==
    /\ tp_pc = "report"
    /\ walk_forward_folds # <<>>
    /\ tp_pc' = "ReportFitError"
    /\ UNCHANGED <<cfg, run, split_index, relay_quality_gate, walk_forward_folds,
                   reg, cls, fitted, disk, report>>
    /\ UNCHANGED notTrain

\* the report is built with the walk-forward summaries of the chosen
\* pipelines (the re-run repeats the fits made when they were scored),
\* sanitized and written to training_report.json
write_report ==
    /\ tp_pc = "report"
    /\ report' = sanitize_metrics(build_report)
    /\ disk' = [disk EXCEPT !.training_report = sanitize_metrics(build_report),
                            !.written_by.training_report = run]
    /\ tp_pc' = "done"
    /\ UNCHANGED <<cfg, run, split_index, relay_quality_gate, walk_forward_folds,
                   reg, cls, fitted>>
    /\ UNCHANGED notTrain

NextTrain ==
    \/ train_load_raise \/ train_insufficient_raise \/ train_split_and_gate
    \/ train_strict_raise
    \/ regressor_select_raise \/ regressor_enter
    \/ regressor_candidate_skip \/ regressor_candidate_abort
    \/ regressor_candidate_score
    \/ regressor_raise_no_model \/ regressor_return
    \/ classifier_gate_skip \/ classifier_enter
    \/ classifier_candidate_skip \/ classifier_candidate_abort
    \/ classifier_candidate_score \/ classifier_return
    \/ persist_models \/ report_walk_forward_abort \/ write_report

\* ------------------------------------------------- stability-adjusted scores
\* the "mae" / "f1" entry of the metrics given: mean and std in hundredths,
\* either of them possibly None; a missing entry reads as both None
StabMeans == {NoValue, 0, 50, 80, 100, 1000, 1200}
StabStds == {NoValue, 0, 4, 10, 20, 200}

\* metrics of test_stability_adjusted_scores
TestMaeMetrics == [mean |-> 1000, std |-> 200]
TestF1Metrics == [mean |-> 80, std |-> 10]

StabInit ==
    /\ stab_metrics \in [mean : StabMeans, std : StabStds]
    /\ stability = NoValue
    /\ stab_pc = "call"

StabIdle ==
    /\ stab_metrics = [mean |-> NoValue, std |-> NoValue]
    /\ stability = NoValue
    /\ stab_pc = "idle"

stability_regression_call ==
    /\ stab_pc = "call"
    /\ stability' = stability_adjusted_regression_loss(stab_metrics)
    /\ stab_pc' = "regression_loss"
    /\ UNCHANGED stab_metrics
    /\ UNCHANGED notStab

stability_classification_call ==
    /\ stab_pc = "call"
    /\ stability' = stability_adjusted_classification_score(stab_metrics)
    /\ stab_pc' = "classification_score"
    /\ UNCHANGED stab_metrics
    /\ UNCHANGED notStab

NextStab == stability_regression_call \/ stability_classification_call

\* ------------------------------------------------------------ sanitize_metrics
\* A value of the report as Python holds it: a dict (keys and items side by
\* side), a list, a float, or anything else (int, str, None).  The number of a
\* float is in hundredths, NaN and +/-Infinity standing for the non-finite
\* ones; a str or an int may carry the same number without being a float.
Scalar(kind, num) == [kind |-> kind, num |-> num, keys |-> <<>>, items |-> <<>>]
List(items) == [kind |-> "list", num |-> 0, keys |-> <<>>, items |-> items]
Dict(keys, items) == [kind |-> "dict", num |-> 0, keys |-> keys, items |-> items]
PyNone == Scalar("None", 0)

Leaves ==
    {Scalar("float", x) : x \in {NaN, Infinity, -Infinity, 150}}
        \cup {Scalar("int", 7), Scalar("str", NaN), PyNone}

\* the values nested at most depth containers deep
RECURSIVE Trees(_)
Trees(depth) ==
    IF depth = 0 THEN Leaves
    ELSE LET inner == Trees(depth - 1)
         IN inner
              \cup {List(<<x>>) : x \in inner}
              \cup {Dict(<<"mae">>, <<x>>) : x \in inner}
              \cup {List(<<x, y>>) : x \in Leaves, y \in Leaves}

\* mutant: lists are returned as they are
RECURSIVE sanitize_value_tree_dicts_only(_)
sanitize_value_tree_dicts_only(value) ==
    IF value.kind = "dict"
    THEN [value EXCEPT !.items =
             [i \in 1..Len(value.items) |-> sanitize_value_tree_dicts_only(value.items[i])]]
    ELSE IF value.kind = "float" /\ value.num \in {NaN, Infinity, -Infinity}
    THEN PyNone
    ELSE value

\* sanitize_value of sanitize_metrics, on a value of any shape
RECURSIVE sanitize_value_tree(_)
sanitize_value_tree(value) ==
    IF value.kind = "dict"
    THEN [value EXCEPT !.items =
             [i \in 1..Len(value.items) |-> sanitize_value_tree(value.items[i])]]
    ELSE IF value.kind = "list"
    THEN [value EXCEPT !.items =
             [i \in 1..Len(value.items) |-> sanitize_value_tree(value.items[i])]]
    ELSE IF value.kind = "float" /\ value.num \in {NaN, Infinity, -Infinity}
    THEN PyNone
    ELSE value

SanInit ==
    /\ \E metrics \in Trees(MaxDepth), note_value \in Leaves :
          san_report = Dict(<<"metrics", "notes">>, <<metrics, note_value>>)
    /\ san_result = PyNone
    /\ san_pc = "call"

SanIdle ==
    /\ san_report = PyNone
    /\ san_result = PyNone
    /\ san_pc = "idle"

sanitize_metrics_call ==
    /\ san_pc = "call"
    /\ san_result' = sanitize_value_tree(san_report)
    /\ san_pc' = "return"
    /\ UNCHANGED san_report
    /\ UNCHANGED notSan

NextSan == sanitize_metrics_call

\* --------------------------------------------------------------- align_columns
\* A one-row frame: the column labels in order (pandas allows a label to
\* stand twice) and the row's value under each.
ColumnLabels == {"a", "b", "c"}
CellValues == {1, 2}
PdNA == -2000

Frames ==
    UNION {{[columns |-> labels, row |-> cells] :
                labels \in [1..n -> ColumnLabels], cells \in [1..n -> CellValues]} :
           n \in 0..MaxColumns}

NoFrame == [columns |-> <<>>, row |-> <<>>]

\* frame and expected list of test_align_columns_adds_missing_and_reorders
TestInputFrame == [columns |-> <<"b", "a">>, row |-> <<2, 1>>]
TestExpectedColumns == <<"a", "b", "c">>

\* the expected labels the frame lacks, each once, in the order of the list
missing_columns(frame, expected) ==
    LET F[i \in 0..Len(expected)] ==
            IF i = 0 THEN <<>>
            ELSE IF expected[i] \in Range(frame.columns) \cup Range(F[i - 1])
                 THEN F[i - 1]
                 ELSE Append(F[i - 1], expected[i])
    IN F[Len(expected)]

\* mutant: a missing column is filled with 0
with_missing_zero(frame, expected) ==
    LET missing == missing_columns(frame, expected)
    IN [columns |-> frame.columns \o missing,
        row |-> frame.row \o [i \in 1..Len(missing) |-> 0]]

\* for column_name in expected_columns: if column_name not in
\* aligned.columns: aligned[column_name] = pd.NA
with_missing(frame, expected) ==
    LET missing == missing_columns(frame, expected)
    IN [columns |-> frame.columns \o missing,
        row |-> frame.row \o [i \in 1..Len(missing) |-> PdNA]]

\* the positions of the frame's columns selected by frame[labels]: for each
\* label of the list in turn, every column so labelled
selected_positions(frame, labels) ==
    LET F[i \in 0..Len(labels)] ==
            IF i = 0 THEN <<>>
            ELSE F[i - 1] \o KeepIdx([p \in 1..Len(frame.columns) |-> p],
                                     {p \in 1..Len(frame.columns) :
                                          frame.columns[p] = labels[i]})
    IN F[Len(labels)]

\* aligned[expected_columns]
select_columns(frame, labels) ==
    LET positions == selected_positions(frame, labels)
    IN [columns |-> [k \in 1..Len(positions) |-> frame.columns[positions[k]]],
        row |-> [k \in 1..Len(positions) |-> frame.row[positions[k]]]]

align_columns(frame, expected) ==
    select_columns(with_missing(frame, expected), expected)

AlignInit ==
    /\ input_frame \in Frames
    /\ expected_columns \in SeqsUpTo(ColumnLabels, MaxExpected)
    /\ aligned = NoFrame
    /\ align_pc = "call"

AlignIdle ==
    /\ input_frame = NoFrame
    /\ expected_columns = <<>>
    /\ aligned = NoFrame
    /\ align_pc = "idle"

\* aligned = input_frame.copy() is changed and returned; the input is not
align_columns_call ==
    /\ align_pc = "call"
    /\ aligned' = align_columns(input_frame, expected_columns)
    /\ align_pc' = "return"
    /\ UNCHANGED <<input_frame, expected_columns>>
    /\ UNCHANGED notAlign

NextAlign == align_columns_call

\* ------------------------------------------------------------ twin runs
\* Two runs of train_pipeline on one dataset and one seed.  A candidate's fit
\* on that data with that seed has one outcome, drawn once in twin_input and
\* read by both runs: it raises (NoValue) or yields a holdout metric.  The
\* frames are short enough that no walk-forward fold is built.

\* build_feature_frame's signal_columns, in its order
signal_columns ==
    <<"temp_c", "humidity_pct", "soil_adc", "light_lux", "relay_light", "automation_on">>

\* a column of the feature frame: a dataset column (feature "") or a column
\* engineered from one
column_of(name, feature) == [column |-> name, feature |-> feature]

RECURSIVE signal_features(_, _)
signal_features(signals, columns) ==
    IF signals = <<>> THEN <<>>
    ELSE (IF Head(signals) \in Range(columns)
          THEN [k \in 1..5 |-> column_of(Head(signals),
                                  <<"lag_1", "lag_2", "lag_3", "lag_5", "delta_1">>[k])]
          ELSE <<>>)
         \o signal_features(Tail(signals), columns)

\* the columns of build_feature_frame(data_frame), in the order it adds them
build_feature_frame(columns) ==
    [k \in 1..Len(columns) |-> column_of(columns[k], "")]
    \o <<column_of("timestamp", "time_sin"), column_of("timestamp", "time_cos")>>
    \o signal_features(signal_columns, columns)
    \o (IF "light_lux" \in Range(columns)
        THEN [k \in 1..6 |-> column_of("light_lux",
                                <<"roll_mean_3", "roll_std_3", "roll_mean_5",
                                  "roll_std_5", "roll_mean_10", "roll_std_10">>[k])]
             \o (IF "threshold_light_lux" \in Range(columns)
                 THEN <<column_of("light_lux", "light_margin")>> ELSE <<>>)
        ELSE <<>>)
    \o (IF {"temp_c", "threshold_temp_on"} \subseteq Range(columns)
        THEN <<column_of("temp_c", "temp_margin")>> ELSE <<>>)
    \o (IF {"soil_adc", "threshold_soil_dry"} \subseteq Range(columns)
        THEN <<column_of("soil_adc", "soil_margin")>> ELSE <<>>)

\* make_supervised_data: drop(columns=["timestamp"]) of the feature frame
supervised_columns(feature_columns) ==
    SelectSeq(feature_columns,
              LAMBDA c : ~(c.column = "timestamp" /\ c.feature = ""))

\* the column orders of the dataset file explored
DatasetColumns ==
    {<<"timestamp", "light_lux", "relay_light">>,
     <<"relay_light", "timestamp", "threshold_light_lux", "light_lux">>}

\* mutant: candidates are taken up in the order their evaluations complete
completion_orders(candidates) ==
    {[k \in 1..Len(candidates) |-> candidates[p[k]]] : p \in Perms(Len(candidates))}

\* model_items = list(candidate_models.items()): the registry's order
evaluation_orders(candidates) == {candidates}

TwinRuns == 1..2

NoTwinRun == [pc |-> "idle", reg |-> NoSearch, cls |-> NoSearch, feature_columns |-> <<>>]

TwinInit ==
    /\ twin_input \in [columns : DatasetColumns,
                       regression : [Range(build_candidates(TRUE)) -> {NoValue} \cup MaeValues],
                       classification : [Range(build_candidates(TRUE)) -> {NoValue, 80}]]
    /\ twin_runs = [r \in TwinRuns |-> [NoTwinRun EXCEPT !.pc = "call"]]

TwinIdle ==
    /\ twin_input = [columns |-> <<>>, regression |-> <<>>, classification |-> <<>>]
    /\ twin_runs = <<>>

\* fit_best_regressor up to the loop
twin_regressor_enter ==
    /\ \E r \in TwinRuns, order \in evaluation_orders(build_candidates(TRUE)) :
          /\ twin_runs[r].pc = "call"
          /\ twin_runs' = [twin_runs EXCEPT
                              ![r].pc = "regression",
                              ![r].reg = search_start(order, Infinity, "holdout_mae")]
    /\ UNCHANGED twin_input
    /\ UNCHANGED notTwin

\* one pass of the regressor loop: the fit raises and the candidate is
\* skipped, or it is scored on the holdout and replaces a worse incumbent
twin_regressor_candidate ==
    /\ \E r \in TwinRuns :
          /\ twin_runs[r].pc = "regression"
          /\ twin_runs[r].reg.todo # <<>>
          /\ LET search == twin_runs[r].reg
                 mae == twin_input.regression[Head(search.todo)]
                 selection == regression_selection(mae, FALSE, NoWalkForward)
             IN twin_runs' = [twin_runs EXCEPT ![r].reg =
                    IF mae = NoValue THEN candidate_skipped(search)
                    ELSE candidate_scored(search, mae, NoWalkForward, selection,
                             regression_better(selection.score, search.best_score))]
    /\ UNCHANGED twin_input
    /\ UNCHANGED notTwin

\* the end of the regressor loop: RuntimeError without a best pipeline,
\* otherwise fit_best_classifier starts
twin_regressor_return ==
    /\ \E r \in TwinRuns, order \in evaluation_orders(build_candidates(TRUE)) :
          /\ twin_runs[r].pc = "regression"
          /\ twin_runs[r].reg.todo = <<>>
          /\ twin_runs' = [twin_runs EXCEPT
                ![r].pc = IF twin_runs[r].reg.best_name = None
                          THEN "NoViableModel" ELSE "classification",
                ![r].cls = IF twin_runs[r].reg.best_name = None THEN @
                           ELSE search_start(order, -100, "holdout_f1")]
    /\ UNCHANGED twin_input
    /\ UNCHANGED notTwin

\* one pass of the classifier loop
twin_classifier_candidate ==
    /\ \E r \in TwinRuns :
          /\ twin_runs[r].pc = "classification"
          /\ twin_runs[r].cls.todo # <<>>
          /\ LET search == twin_runs[r].cls
                 f1 == twin_input.classification[Head(search.todo)]
                 selection == classification_selection(f1, FALSE, NoWalkForward)
             IN twin_runs' = [twin_runs EXCEPT ![r].cls =
                    IF f1 = NoValue THEN candidate_skipped(search)
                    ELSE candidate_scored(search, f1, NoWalkForward, selection,
                             classification_better(selection.score, search.best_score))]
    /\ UNCHANGED twin_input
    /\ UNCHANGED notTwin

\* feature_columns = list(features.columns), written to feature_columns.json
twin_write_feature_columns ==
    /\ \E r \in TwinRuns :
          /\ twin_runs[r].pc = "classification"
          /\ twin_runs[r].cls.todo = <<>>
          /\ twin_runs' = [twin_runs EXCEPT
                ![r].pc = "done",
                ![r].feature_columns =
                    supervised_columns(build_feature_frame(twin_input.columns))]
    /\ UNCHANGED twin_input
    /\ UNCHANGED notTwin

NextTwin ==
    \/ twin_regressor_enter
    \/ twin_regressor_candidate
    \/ twin_regressor_return
    \/ twin_classifier_candidate
    \/ twin_write_feature_columns

\* ------------------------------------------------------------ the split
\* train_pipeline from the row-count check to the train and validation
\* frames, on a supervised frame of split_rows rows in timestamp order (row i
\* stands for the i-th instant) and any finite train_ratio, in percent.
MaxSplitRows == 60

\* ratios below, inside and above the range main() accepts
TrainRatios == {-50, -1, 0, 10, 49, 60, 80, 99, 100, 101, 150, 300}

NoSplit == [split_index |-> 0, train_x |-> <<>>, valid_x |-> <<>>]

SplitInit ==
    /\ split_rows \in 38..MaxSplitRows
    /\ split_train_ratio \in TrainRatios
    /\ split_frames = NoSplit
    /\ split_pc = "call"

SplitIdle ==
    /\ split_rows = 0
    /\ split_train_ratio = 0
    /\ split_frames = NoSplit
    /\ split_pc = "idle"

\* if len(features) < minimum_rows: raise ValueError
split_insufficient_raise ==
    /\ split_pc = "call"
    /\ insufficient_rows(split_rows)
    /\ split_pc' = "InsufficientData"
    /\ UNCHANGED <<split_rows, split_train_ratio, split_frames>>
    /\ UNCHANGED notSplit

\* split_index, then features.iloc[:split_index] and features.iloc[split_index:]
split_frames_cut ==
    /\ split_pc = "call"
    /\ ~insufficient_rows(split_rows)
    /\ LET features == [i \in 1..split_rows |-> i]
           cut == split_index_of(split_rows, split_train_ratio)
       IN split_frames' = [split_index |-> cut,
                           train_x |-> iloc(features, 0, cut),
                           valid_x |-> iloc(features, cut, split_rows)]
    /\ split_pc' = "split"
    /\ UNCHANGED <<split_rows, split_train_ratio>>
    /\ UNCHANGED notSplit

NextSplit ==
    \/ split_insufficient_raise
    \/ split_frames_cut

\* ---------------------------------------- run_walk_forward_classification
\* The loop of run_walk_forward_classification over any fold list on a
\* three-row target.  f1 stands for the four metrics appended for every fold
\* that ran (accuracy, precision, recall, f1); roc_auc is appended only when
\* the validation range holds two classes and predict_proba does not raise.
MaxFoldList == 2

\* every pair of adjacent ranges of the three rows, empty ones included
AnyFolds ==
    UNION {{[train |-> slice(0, a), valid |-> slice(a, b)] : b \in a..3} : a \in 0..3}

cw_loop_start == [idx |-> 1, by_fold |-> <<>>, f1s |-> <<>>, aucs |-> <<>>,
                  skipped_folds |-> 0]

NoClsWalkForward ==
    [folds_run |-> 0, folds_skipped |-> 0,
     metrics |-> [f1 |-> mean_std(<<>>), roc_auc |-> mean_std(<<>>)],
     by_fold |-> <<>>]

WfClsInit ==
    /\ cw_target \in [1..3 -> {0, 1 * Scale}]
    /\ cw_folds \in SeqsUpTo(AnyFolds, MaxFoldList)
    /\ cw_loop = cw_loop_start
    /\ cw_result = NoClsWalkForward
    /\ cw_pc = "loop"

WfClsIdle ==
    /\ cw_target = <<>>
    /\ cw_folds = <<>>
    /\ cw_loop = cw_loop_start
    /\ cw_result = NoClsWalkForward
    /\ cw_pc = "idle"

\* fold_train_y and fold_valid_y of the fold the loop is at
cw_fold_train_y ==
    iloc(cw_target, cw_folds[cw_loop.idx].train.start, cw_folds[cw_loop.idx].train.stop)
cw_fold_valid_y ==
    iloc(cw_target, cw_folds[cw_loop.idx].valid.start, cw_folds[cw_loop.idx].valid.stop)

\* mutant: only an empty training range is skipped
fold_skipped_empty(fold_train_y) == Cardinality(unique(fold_train_y)) < 1

\* if fold_train_y.nunique(dropna=True) < 2
fold_skipped(fold_train_y) == Cardinality(unique(fold_train_y)) < 2

\* skipped_folds += 1; continue
cw_fold_skip ==
    /\ cw_pc = "loop"
    /\ cw_loop.idx <= Len(cw_folds)
    /\ fold_skipped(cw_fold_train_y)
    /\ cw_loop' = [cw_loop EXCEPT !.idx = @ + 1, !.skipped_folds = @ + 1]
    /\ UNCHANGED <<cw_target, cw_folds, cw_result, cw_pc>>
    /\ UNCHANGED notWfCls

\* clone(pipeline).fit or predict raises; nothing in the function catches it
cw_fold_raise ==
    /\ cw_pc = "loop"
    /\ cw_loop.idx <= Len(cw_folds)
    /\ ~fold_skipped(cw_fold_train_y)
    /\ cw_pc' = "raise"
    /\ UNCHANGED <<cw_target, cw_folds, cw_loop, cw_result>>
    /\ UNCHANGED notWfCls

\* the fold runs: its metrics are appended, roc_auc too when it is computed,
\* and its entry joins by_fold
cw_fold_run ==
    /\ cw_pc = "loop"
    /\ cw_loop.idx <= Len(cw_folds)
    /\ ~fold_skipped(cw_fold_train_y)
    /\ cw_fold_valid_y # <<>>
    /\ \E f1 \in FoldF1Values,
          roc_auc \in IF Cardinality(unique(cw_fold_valid_y)) > 1
                      THEN {NoValue, 100} ELSE {NoValue} :
          cw_loop' = [cw_loop EXCEPT
              !.idx = @ + 1,
              !.f1s = Append(@, f1),
              !.aucs = IF roc_auc = NoValue THEN @ ELSE Append(@, roc_auc),
              !.by_fold = Append(@, [fold |-> cw_loop.idx, f1 |-> f1,
                                     roc_auc |-> roc_auc])]
    /\ UNCHANGED <<cw_target, cw_folds, cw_result, cw_pc>>
    /\ UNCHANGED notWfCls

\* the returned summary
cw_return ==
    /\ cw_pc = "loop"
    /\ cw_loop.idx > Len(cw_folds)
    /\ cw_result' = [folds_run |-> Len(cw_loop.by_fold),
                     folds_skipped |-> cw_loop.skipped_folds,
                     metrics |-> [f1 |-> mean_std(cw_loop.f1s),
                                  roc_auc |-> mean_std(cw_loop.aucs)],
                     by_fold |-> cw_loop.by_fold]
    /\ cw_pc' = "return"
    /\ UNCHANGED <<cw_target, cw_folds, cw_loop>>
    /\ UNCHANGED notWfCls

NextWfCls ==
    \/ cw_fold_skip
    \/ cw_fold_raise
    \/ cw_fold_run
    \/ cw_return

\* ------------------------------------------------- CloudSyncClient.sync_once
\* Calls of sync_once on one event CSV that only grows.  Row k of the CSV
\* is the number k; the state file is absent, unreadable, or holds the
\* last_synced_row that _save_state wrote.
MaxCsvRows == 4

\* batch_size = max(1, int(batch_size)), the default 100 covering every row
BatchSizes == {1, 2, 100}

\* what urlopen does with a request: a response with a status, an HTTPError
\* with a code, a URLError, or another exception
PostOutcomes ==
    {[kind |-> "response", code |-> 200], [kind |-> "response", code |-> 204],
     [kind |-> "response", code |-> 0], [kind |-> "response", code |-> 304],
     [kind |-> "HTTPError", code |-> 500], [kind |-> "URLError", code |-> 0],
     [kind |-> "Exception", code |-> 0]}

\* f"http-{status_code}"
http_text(code) ==
    CASE code = 304 -> "http-304"
      [] code = 500 -> "http-500"
      [] OTHER -> "http"

\* mutant: any response counts as delivered, whatever its status
post_json_any_response(outcome) ==
    CASE outcome.kind = "response" ->
            [ok |-> TRUE, http_status |-> outcome.code, status |-> "ok"]
      [] outcome.kind = "HTTPError" ->
            [ok |-> FALSE, http_status |-> outcome.code, status |-> http_text(outcome.code)]
      [] outcome.kind = "URLError" ->
            [ok |-> FALSE, http_status |-> 0, status |-> "network-error"]
      [] OTHER -> [ok |-> FALSE, http_status |-> 0, status |-> "unexpected-error"]

\* _post_json: (ok, http_status, status)
post_json(outcome) ==
    CASE outcome.kind = "response" ->
            LET status_code == IF outcome.code = 0 THEN 200 ELSE outcome.code
            IN IF 200 <= status_code /\ status_code < 300
               THEN [ok |-> TRUE, http_status |-> status_code, status |-> "ok"]
               ELSE [ok |-> FALSE, http_status |-> status_code,
                     status |-> http_text(status_code)]
      [] outcome.kind = "HTTPError" ->
            [ok |-> FALSE, http_status |-> outcome.code, status |-> http_text(outcome.code)]
      [] outcome.kind = "URLError" ->
            [ok |-> FALSE, http_status |-> 0, status |-> "network-error"]
      [] OTHER -> [ok |-> FALSE, http_status |-> 0, status |-> "unexpected-error"]

\* _load_state: 0 when the file is absent or cannot be read as a state
load_state(file) == IF file.kind = "json" THEN file.last_synced_row ELSE 0

\* _save_state: last_synced_row = int(max(0, last_synced_row))
save_state(last_synced_row) ==
    [kind |-> "json", last_synced_row |-> Max2(0, last_synced_row)]

\* _read_rows: the rows of the CSV, in file order
read_rows(row_count) == [k \in 1..row_count |-> k]

\* rows[last_synced_row:]
pending_rows(all_rows, last_synced_row) ==
    SubSeq(all_rows, last_synced_row + 1, Len(all_rows))

\* mutant: everything pending is sent at once
batch_of_all(pending, batch_size) == pending

\* pending[: self.batch_size]
batch_of(pending, batch_size) == SubSeq(pending, 1, Min2(batch_size, Len(pending)))

sync_result(ok, status, http_status, synced, pending_count, last_synced_row) ==
    [ok |-> ok, status |-> status, http_status |-> http_status, synced |-> synced,
     pending |-> pending_count, last_synced_row |-> last_synced_row]

NoSyncResult == sync_result(FALSE, None, NoValue, 0, 0, NoValue)

CloudInit ==
    /\ cs_client \in [configured : BOOLEAN, batch_size : BatchSizes]
    /\ cs_event_csv \in 0..1
    /\ cs_state_file \in {[kind |-> "absent", last_synced_row |-> 0],
                          [kind |-> "unreadable", last_synced_row |-> 0]}
    /\ cs_payload = <<>>
    /\ cs_posted = <<>>
    /\ cs_result = NoSyncResult

CloudIdle ==
    /\ cs_client = [configured |-> FALSE, batch_size |-> 0]
    /\ cs_event_csv = 0
    /\ cs_state_file = [kind |-> "absent", last_synced_row |-> 0]
    /\ cs_payload = <<>>
    /\ cs_posted = <<>>
    /\ cs_result = NoSyncResult

\* the logger appends a row to the CSV
csv_append ==
    /\ cs_event_csv < MaxCsvRows
    /\ cs_event_csv' = cs_event_csv + 1
    /\ UNCHANGED <<cs_client, cs_state_file, cs_payload, cs_posted, cs_result>>
    /\ UNCHANGED notCloud

\* if not self.is_configured()
sync_once_not_configured ==
    /\ ~cs_client.configured
    /\ cs_result' = sync_result(FALSE, "not-configured", NoValue, 0, 0, NoValue)
    /\ UNCHANGED <<cs_client, cs_event_csv, cs_state_file, cs_payload, cs_posted>>
    /\ UNCHANGED notCloud

\* if last_synced_row >= len(rows)
sync_once_up_to_date ==
    /\ cs_client.configured
    /\ load_state(cs_state_file) >= Len(read_rows(cs_event_csv))
    /\ cs_result' = sync_result(TRUE, "up-to-date", NoValue, 0, 0, NoValue)
    /\ UNCHANGED <<cs_client, cs_event_csv, cs_state_file, cs_payload, cs_posted>>
    /\ UNCHANGED notCloud

\* the post is made and fails: the result only
sync_once_post_failed ==
    /\ cs_client.configured
    /\ load_state(cs_state_file) < Len(read_rows(cs_event_csv))
    /\ \E outcome \in PostOutcomes :
          LET pending == pending_rows(read_rows(cs_event_csv), load_state(cs_state_file))
              batch == batch_of(pending, cs_client.batch_size)
              posted == post_json(outcome)
          IN /\ ~posted.ok
             /\ cs_payload' = batch
             /\ cs_result' = sync_result(FALSE, posted.status, posted.http_status,
                                         0, Len(pending), NoValue)
    /\ UNCHANGED <<cs_client, cs_event_csv, cs_state_file, cs_posted>>
    /\ UNCHANGED notCloud

\* the post succeeds: the cursor is saved past the batch
sync_once_post_ok ==
    /\ cs_client.configured
    /\ load_state(cs_state_file) < Len(read_rows(cs_event_csv))
    /\ \E outcome \in PostOutcomes :
          LET all_rows == read_rows(cs_event_csv)
              last_synced_row == load_state(cs_state_file)
              pending == pending_rows(all_rows, last_synced_row)
              batch == batch_of(pending, cs_client.batch_size)
              posted == post_json(outcome)
              updated_row == last_synced_row + Len(batch)
          IN /\ posted.ok
             /\ cs_payload' = batch
             /\ cs_posted' = Append(cs_posted, batch)
             /\ cs_state_file' = save_state(updated_row)
             /\ cs_result' = sync_result(TRUE, "ok", posted.http_status, Len(batch),
                                         Max2(0, Len(all_rows) - updated_row),
                                         updated_row)
    /\ UNCHANGED <<cs_client, cs_event_csv>>
    /\ UNCHANGED notCloud

NextCloud ==
    \/ csv_append
    \/ sync_once_not_configured
    \/ sync_once_up_to_date
    \/ sync_once_post_failed
    \/ sync_once_post_ok

\* ------------------------------------------ TelegramNotifier.send_with_cooldown
\* Calls of send_with_cooldown on one notifier while the clock moves on.
\* tn_dispatched keeps, per key, the times at which send_message_async was
\* started; tn_call is the last call and what it returned.
TestDefaultCooldown == 60

AlertKeys == {"flame", "soil_dry"}

\* the values time.time() takes, in seconds
ClockTicks == {1000, 1004, 1005, 1010, 1060, 1071}

\* the cooldown_seconds argument: None, or a number of seconds
CooldownArguments == {NoValue, 0, 70}

\* default_cooldown_seconds if cooldown_seconds is None else max(5, int(cooldown_seconds))
cooldown_of(default_cooldown_seconds, cooldown_seconds) ==
    IF cooldown_seconds = NoValue THEN default_cooldown_seconds
    ELSE Max2(5, cooldown_seconds)

\* mutant: a rejected call records its time as well
last_sent_after_any_call(last_sent, key, now, accepted) ==
    [last_sent EXCEPT ![key] = now]

\* self.last_sent[key] = now, reached only by an accepted call
last_sent_after(last_sent, key, now, accepted) ==
    IF accepted THEN [last_sent EXCEPT ![key] = now] ELSE last_sent

NoCall == [key |-> None, now |-> 0, cooldown |-> 0, returned |-> FALSE]

NotifyInit ==
    /\ tn_enabled \in BOOLEAN
    /\ tn_now = 1000
    /\ tn_last_sent = [key \in AlertKeys |-> 0]
    /\ tn_dispatched = [key \in AlertKeys |-> <<>>]
    /\ tn_call = NoCall

NotifyIdle ==
    /\ tn_enabled = FALSE
    /\ tn_now = 0
    /\ tn_last_sent = <<>>
    /\ tn_dispatched = <<>>
    /\ tn_call = NoCall

\* time passes
clock_advance ==
    /\ \E later \in ClockTicks : later > tn_now /\ tn_now' = later
    /\ UNCHANGED <<tn_enabled, tn_last_sent, tn_dispatched, tn_call>>
    /\ UNCHANGED notNotify

\* if not self.enabled: return False
send_with_cooldown_disabled ==
    /\ ~tn_enabled
    /\ \E key \in AlertKeys, cooldown_seconds \in CooldownArguments :
          tn_call' = [key |-> key, now |-> tn_now,
                      cooldown |-> cooldown_of(TestDefaultCooldown, cooldown_seconds),
                      returned |-> FALSE]
    /\ UNCHANGED <<tn_enabled, tn_now, tn_last_sent, tn_dispatched>>
    /\ UNCHANGED notNotify

\* the enabled notifier: the call is rejected inside the cooldown, otherwise
\* the time is recorded, the message thread is started and True is returned
send_with_cooldown ==
    /\ tn_enabled
    /\ \E key \in AlertKeys, cooldown_seconds \in CooldownArguments :
          LET cooldown == cooldown_of(TestDefaultCooldown, cooldown_seconds)
              accepted == ~((tn_now - tn_last_sent[key]) < cooldown)
          IN /\ tn_last_sent' = last_sent_after(tn_last_sent, key, tn_now, accepted)
             /\ tn_dispatched' = IF accepted
                                 THEN [tn_dispatched EXCEPT ![key] = Append(@, tn_now)]
                                 ELSE tn_dispatched
             /\ tn_call' = [key |-> key, now |-> tn_now, cooldown |-> cooldown,
                            returned |-> accepted]
    /\ UNCHANGED <<tn_enabled, tn_now>>
    /\ UNCHANGED notNotify

NextNotify ==
    \/ clock_advance
    \/ send_with_cooldown_disabled
    \/ send_with_cooldown

\* ------------------------------------- dashboard: Telegram command polling
\* poll_telegram_commands calling process_telegram_updates again and again
\* in its one thread.  A call is taken in steps: the resume check, the fetch,
\* one step per received update, the return.  tg_writes and tg_sent are the
\* serial writes and the replies of the last step, tg_update the update it
\* handled, tg_seen the update ids the running call has received.
MaxUpdates == 2

\* the chat id the notifier is configured with, and the ids messages carry
\* ("" when the message has no chat id)
TestChatId == "42"
MessageChatIds == {"42", "100", ""}

\* TELEGRAM_MANUAL_HOLD_SECONDS values, and the values of time.time()
HoldSeconds == {0, 10}
TelegramTicks == {100, 105, 110, 120}

\* message texts, as typed
MessageTexts ==
    {"/fan_on", "/fan_off", "/pump_on", "/pump_off", "/light_on", "/light_off",
     "/buzzer_on", "/buzzer_off", "/all_off", "/automation_on", "/automation_off",
     "/status", "/Fan_On@FarmBot now", "hello", ""}

\* an update: its update_id (NoValue when it is not an int) and its message
\* ("none": no message object, "photo": a message without a text string)
Updates ==
    [update_id : {NoValue, 7, 99}, kind : {"none"}, chat_id : {""}, text : {""}]
    \cup [update_id : {NoValue, 7, 99}, kind : {"photo"}, chat_id : MessageChatIds,
          text : {""}]
    \cup [update_id : {NoValue, 7, 99}, kind : {"text"}, chat_id : MessageChatIds,
          text : MessageTexts]

NoUpdate == [update_id |-> NoValue, kind |-> "none", chat_id |-> "", text |-> ""]

\* raw.split()[0].lower(), cut at "@" when it starts with "/"
first_token(text) ==
    IF text = "/Fan_On@FarmBot now" THEN "/fan_on" ELSE text

\* relay_command_map.get(first_token): the serial command, None without one
relay_command_map(token) ==
    CASE token = "/fan_on" -> "F" [] token = "/fan_off" -> "f"
      [] token = "/pump_on" -> "P" [] token = "/pump_off" -> "p"
      [] token = "/light_on" -> "L" [] token = "/light_off" -> "l"
      [] token = "/buzzer_on" -> "B" [] token = "/buzzer_off" -> "b"
      [] OTHER -> None

automation_command_map(token) ==
    CASE token = "/automation_on" -> "A"
      [] token = "/automation_off" -> "a"
      [] OTHER -> None

\* telegram_manual_override_active and telegram_manual_override_until
NoOverride == [active |-> FALSE, until |-> NoValue]

\* start_telegram_manual_override, after its send_cmd("a")
start_telegram_manual_override(hold_seconds, now) ==
    [active |-> TRUE,
     until |-> IF hold_seconds > 0 THEN now + hold_seconds ELSE NoValue]

\* mutant: an active override is resumed whatever its deadline
resume_due_when_active(override, now) == override.active

\* maybe_resume_automation_after_manual_override: should_resume
resume_due(override, now) ==
    override.active /\ override.until # NoValue /\ now >= override.until

\* parse_telegram_command: the serial writes, the reply and the override left
parse_telegram_command(text, override, hold_seconds, now) ==
    LET token == first_token(text)
    IN CASE token = "" ->
              [writes |-> <<>>, reply |-> "", override |-> override]
         [] token \in {"/start", "/help", "/menu"} ->
              [writes |-> <<>>, reply |-> "help", override |-> override]
         [] token \in {"/status", "/risk", "/advice", "/history"} ->
              [writes |-> <<>>, reply |-> "report", override |-> override]
         [] token = "/all_off" ->
              [writes |-> <<"a", "f", "p", "l", "b">>, reply |-> "all relays off",
               override |-> start_telegram_manual_override(hold_seconds, now)]
         [] relay_command_map(token) # None ->
              [writes |-> <<"a", relay_command_map(token)>>, reply |-> "relay command sent",
               override |-> start_telegram_manual_override(hold_seconds, now)]
         [] automation_command_map(token) # None ->
              [writes |-> <<automation_command_map(token)>>,
               reply |-> "automation command sent", override |-> NoOverride]
         [] OTHER ->
              [writes |-> <<>>, reply |-> "unknown command", override |-> override]

\* mutant: every chat may command
authorized_any(message_chat_id, chat_id) == TRUE

\* the negation of: message_chat_id != str(telegram_notifier.chat_id)
authorized(message_chat_id, chat_id) == message_chat_id = chat_id

\* next_offset after an update: max(next_offset, update_id + 1) for an int id
offset_after(offset, update_id) ==
    IF update_id = NoValue THEN offset
    ELSE IF offset = NoValue THEN update_id + 1
    ELSE Max2(offset, update_id + 1)

NoReturn == [next_offset |-> NoValue, ok |-> FALSE]

TelegramInit ==
    /\ tg_hold \in HoldSeconds
    /\ tg_now = 100
    /\ tg_pc = "call"
    /\ tg_next_offset = NoValue
    /\ tg_offset = NoValue
    /\ tg_pending = 0
    /\ tg_seen = {}
    /\ tg_override = NoOverride
    /\ tg_update = NoUpdate
    /\ tg_writes = <<>>
    /\ tg_sent = <<>>
    /\ tg_returned = NoReturn

TelegramIdle ==
    /\ tg_hold = 0
    /\ tg_now = 0
    /\ tg_pc = "idle"
    /\ tg_next_offset = NoValue
    /\ tg_offset = NoValue
    /\ tg_pending = 0
    /\ tg_seen = {}
    /\ tg_override = NoOverride
    /\ tg_update = NoUpdate
    /\ tg_writes = <<>>
    /\ tg_sent = <<>>
    /\ tg_returned = NoReturn

\* time passes, at any point of the loop
time_passes ==
    /\ \E later \in TelegramTicks : later > tg_now /\ tg_now' = later
    /\ UNCHANGED <<tg_hold, tg_pc, tg_next_offset, tg_offset, tg_pending, tg_seen,
                   tg_override, tg_update, tg_writes, tg_sent, tg_returned>>
    /\ UNCHANGED notTelegram

\* process_telegram_updates(next_offset) starts with
\* maybe_resume_automation_after_manual_override()
maybe_resume_automation ==
    /\ tg_pc = "call"
    /\ IF resume_due(tg_override, tg_now)
       THEN /\ tg_writes' = <<"A">>
            /\ tg_override' = NoOverride
       ELSE /\ tg_writes' = <<>>
            /\ tg_override' = tg_override
    /\ tg_offset' = tg_next_offset
    /\ tg_seen' = {}
    /\ tg_update' = NoUpdate
    /\ tg_sent' = <<>>
    /\ tg_pc' = "fetch"
    /\ UNCHANGED <<tg_hold, tg_now, tg_next_offset, tg_pending, tg_returned>>
    /\ UNCHANGED notTelegram

\* get_updates fails: return next_offset, False
updates_fetch_failed ==
    /\ tg_pc = "fetch"
    /\ tg_returned' = [next_offset |-> tg_offset, ok |-> FALSE]
    /\ tg_next_offset' = tg_offset
    /\ tg_writes' = <<>>
    /\ tg_pc' = "call"
    /\ UNCHANGED <<tg_hold, tg_now, tg_offset, tg_pending, tg_seen, tg_override,
                   tg_update, tg_sent>>
    /\ UNCHANGED notTelegram

\* get_updates returns a list of updates
updates_fetched ==
    /\ tg_pc = "fetch"
    /\ tg_pending' \in 0..MaxUpdates
    /\ tg_writes' = <<>>
    /\ tg_pc' = "loop"
    /\ UNCHANGED <<tg_hold, tg_now, tg_next_offset, tg_offset, tg_seen, tg_override,
                   tg_update, tg_sent, tg_returned>>
    /\ UNCHANGED notTelegram

\* one pass of the loop over the updates
update_handled ==
    /\ tg_pc = "loop"
    /\ tg_pending > 0
    /\ \E update \in Updates :
          LET command == parse_telegram_command(update.text, tg_override, tg_hold, tg_now)
              executed == /\ update.kind = "text"
                          /\ authorized(update.chat_id, TestChatId)
          IN /\ tg_update' = update
             /\ tg_offset' = offset_after(tg_offset, update.update_id)
             /\ tg_seen' = tg_seen \cup ({update.update_id} \ {NoValue})
             /\ tg_writes' = IF executed THEN command.writes ELSE <<>>
             /\ tg_override' = IF executed THEN command.override ELSE tg_override
             /\ tg_sent' = IF executed /\ command.reply # "" THEN <<command.reply>>
                           ELSE <<>>
    /\ tg_pending' = tg_pending - 1
    /\ UNCHANGED <<tg_hold, tg_now, tg_pc, tg_next_offset, tg_returned>>
    /\ UNCHANGED notTelegram

\* return next_offset, True; the polling loop keeps the offset
updates_return ==
    /\ tg_pc = "loop"
    /\ tg_pending = 0
    /\ tg_returned' = [next_offset |-> tg_offset, ok |-> TRUE]
    /\ tg_next_offset' = tg_offset
    /\ tg_writes' = <<>>
    /\ tg_sent' = <<>>
    /\ tg_pc' = "call"
    /\ UNCHANGED <<tg_hold, tg_now, tg_offset, tg_pending, tg_seen, tg_override,
                   tg_update>>
    /\ UNCHANGED notTelegram

NextTelegram ==
    \/ time_passes
    \/ maybe_resume_automation
    \/ updates_fetch_failed
    \/ updates_fetched
    \/ update_handled
    \/ updates_return

\* ------------------------------------------------------------ specifications
InitPrep == PrepInit /\ FoldIdle /\ SupIdle /\ GateIdle /\ TrainIdle /\ StabIdle /\ SanIdle /\ AlignIdle /\ TwinIdle /\ SplitIdle /\ WfClsIdle /\ CloudIdle /\ NotifyIdle /\ TelegramIdle
SpecPrep == InitPrep /\ [][NextPrep]_vars

InitFolds == FoldInit /\ PrepIdle /\ SupIdle /\ GateIdle /\ TrainIdle /\ StabIdle /\ SanIdle /\ AlignIdle /\ TwinIdle /\ SplitIdle /\ WfClsIdle /\ CloudIdle /\ NotifyIdle /\ TelegramIdle
SpecFolds == InitFolds /\ [][NextFolds]_vars

\* the function runs to completion once called
SpecFoldsLive == SpecFolds /\ WF_vars(NextFolds)

InitSup == SupInit /\ PrepIdle /\ FoldIdle /\ GateIdle /\ TrainIdle /\ StabIdle /\ SanIdle /\ AlignIdle /\ TwinIdle /\ SplitIdle /\ WfClsIdle /\ CloudIdle /\ NotifyIdle /\ TelegramIdle
SpecSup == InitSup /\ [][NextSup]_vars

InitGate == GateInit /\ PrepIdle /\ FoldIdle /\ SupIdle /\ TrainIdle /\ StabIdle /\ SanIdle /\ AlignIdle /\ TwinIdle /\ SplitIdle /\ WfClsIdle /\ CloudIdle /\ NotifyIdle /\ TelegramIdle
SpecGate == InitGate /\ [][NextGate]_vars

\* ---- run after run into the same output directory
\* the runs explored there: one candidate (the xgboost family), with and
\* without a passing gate, with and without a fold, and the failing calls
RunCfgs ==
    {[DefaultCfg EXCEPT !.model_family = "xgboost", !.xgboost_available = TRUE,
                        !.pattern = pat, !.min_relay_class_count = mc] :
        pat \in {"alternating", "all_off"}, mc \in {0, 10}}
    \cup {[DefaultCfg EXCEPT !.model_family = "xgboost", !.xgboost_available = TRUE,
                             !.rows_used = 100, !.min_relay_class_count = 0],
          [DefaultCfg EXCEPT !.strict_relay_quality = TRUE],
          [DefaultCfg EXCEPT !.dataset = "missing"],
          [DefaultCfg EXCEPT !.dataset = "empty"],
          [DefaultCfg EXCEPT !.dataset = "no_targets"],
          [DefaultCfg EXCEPT !.horizon_steps = 0],
          [DefaultCfg EXCEPT !.rows_used = 39],
          [DefaultCfg EXCEPT !.model_family = "other"]}

RunsInit ==
    /\ cfg \in RunCfgs
    /\ run = 1
    /\ tp_pc = "call"
    /\ split_index = 0
    /\ relay_quality_gate = NoGate
    /\ walk_forward_folds = <<>>
    /\ reg = NoSearch
    /\ cls = NoSearch
    /\ fitted = [regression |-> {}, classification |-> {}]
    /\ disk = EmptyDisk
    /\ report = NoReport

\* train_pipeline is called again on the output directory of a completed run
train_rerun ==
    /\ tp_pc = "done"
    /\ run < MaxRuns
    /\ cfg' \in RunCfgs
    /\ run' = run + 1
    /\ tp_pc' = "call"
    /\ split_index' = 0
    /\ relay_quality_gate' = NoGate
    /\ walk_forward_folds' = <<>>
    /\ reg' = NoSearch
    /\ cls' = NoSearch
    /\ fitted' = [regression |-> {}, classification |-> {}]
    /\ report' = NoReport
    /\ UNCHANGED disk
    /\ UNCHANGED notTrain

NextRuns == NextTrain \/ train_rerun

InitTrain == TrainInit /\ PrepIdle /\ FoldIdle /\ SupIdle /\ GateIdle /\ StabIdle /\ SanIdle /\ AlignIdle /\ TwinIdle /\ SplitIdle /\ WfClsIdle /\ CloudIdle /\ NotifyIdle /\ TelegramIdle
SpecTrain == InitTrain /\ [][NextTrain]_vars

InitRuns == RunsInit /\ PrepIdle /\ FoldIdle /\ SupIdle /\ GateIdle /\ StabIdle /\ SanIdle /\ AlignIdle /\ TwinIdle /\ SplitIdle /\ WfClsIdle /\ CloudIdle /\ NotifyIdle /\ TelegramIdle
SpecRuns == InitRuns /\ [][NextRuns]_vars

InitStab == StabInit /\ PrepIdle /\ FoldIdle /\ SupIdle /\ GateIdle /\ TrainIdle /\ SanIdle /\ AlignIdle /\ TwinIdle /\ SplitIdle /\ WfClsIdle /\ CloudIdle /\ NotifyIdle /\ TelegramIdle
SpecStab == InitStab /\ [][NextStab]_vars

InitSan == SanInit /\ PrepIdle /\ FoldIdle /\ SupIdle /\ GateIdle /\ TrainIdle /\ StabIdle /\ AlignIdle /\ TwinIdle /\ SplitIdle /\ WfClsIdle /\ CloudIdle /\ NotifyIdle /\ TelegramIdle
SpecSan == InitSan /\ [][NextSan]_vars

InitAlign == AlignInit /\ PrepIdle /\ FoldIdle /\ SupIdle /\ GateIdle /\ TrainIdle /\ StabIdle /\ SanIdle /\ TwinIdle /\ SplitIdle /\ WfClsIdle /\ CloudIdle /\ NotifyIdle /\ TelegramIdle
SpecAlign == InitAlign /\ [][NextAlign]_vars

InitTwin == TwinInit /\ PrepIdle /\ FoldIdle /\ SupIdle /\ GateIdle /\ TrainIdle /\ StabIdle /\ SanIdle /\ AlignIdle /\ SplitIdle /\ WfClsIdle /\ CloudIdle /\ NotifyIdle /\ TelegramIdle
SpecTwin == InitTwin /\ [][NextTwin]_vars

InitSplit == SplitInit /\ PrepIdle /\ FoldIdle /\ SupIdle /\ GateIdle /\ TrainIdle /\ StabIdle /\ SanIdle /\ AlignIdle /\ TwinIdle /\ WfClsIdle /\ CloudIdle /\ NotifyIdle /\ TelegramIdle
SpecSplit == InitSplit /\ [][NextSplit]_vars

InitWfCls == WfClsInit /\ PrepIdle /\ FoldIdle /\ SupIdle /\ GateIdle /\ TrainIdle /\ StabIdle /\ SanIdle /\ AlignIdle /\ TwinIdle /\ SplitIdle /\ CloudIdle /\ NotifyIdle /\ TelegramIdle
SpecWfCls == InitWfCls /\ [][NextWfCls]_vars

InitCloud == CloudInit /\ PrepIdle /\ FoldIdle /\ SupIdle /\ GateIdle /\ TrainIdle /\ StabIdle /\ SanIdle /\ AlignIdle /\ TwinIdle /\ SplitIdle /\ WfClsIdle /\ NotifyIdle /\ TelegramIdle
SpecCloud == InitCloud /\ [][NextCloud]_vars

\* sync_once keeps being called, and a post that can succeed again and again
\* does succeed
SpecCloudLive ==
    /\ SpecCloud
    /\ WF_vars(sync_once_not_configured \/ sync_once_up_to_date
                   \/ sync_once_post_failed \/ sync_once_post_ok)
    /\ SF_vars(sync_once_post_ok)

InitNotify == NotifyInit /\ PrepIdle /\ FoldIdle /\ SupIdle /\ GateIdle /\ TrainIdle /\ StabIdle /\ SanIdle /\ AlignIdle /\ TwinIdle /\ SplitIdle /\ WfClsIdle /\ CloudIdle /\ TelegramIdle
SpecNotify == InitNotify /\ [][NextNotify]_vars

InitTelegram == TelegramInit /\ PrepIdle /\ FoldIdle /\ SupIdle /\ GateIdle /\ TrainIdle /\ StabIdle /\ SanIdle /\ AlignIdle /\ TwinIdle /\ SplitIdle /\ WfClsIdle /\ CloudIdle /\ NotifyIdle
SpecTelegram == InitTelegram /\ [][NextTelegram]_vars

\* ------------------------------------------------------------------ claims

\* parsed instants of the raw rows, and the raw positions holding instant t
RawInstants ==
    {to_datetime(r.timestamp) : r \in Range(raw_data_frame.rows)} \ {NaT}
RawPositions(t) ==
    {i \in 1..Len(raw_data_frame.rows) :
        to_datetime(raw_data_frame.rows[i].timestamp) = t}
Max(S) == CHOOSE m \in S : \A x \in S : x <= m

\* C1 (as claimed): among the raw rows that share a parsed timestamp exactly
\* one is kept, the one that is last in raw input order, and the output has no
\* two rows with equal timestamps.
C1_LastRawOccurrenceKept ==
    prep_pc = "return" =>
        /\ \A i, j \in 1..Len(data_frame) :
               i # j => data_frame[i].timestamp # data_frame[j].timestamp
        /\ \A t \in RawInstants :
               \E i \in 1..Len(data_frame) :
                   /\ data_frame[i].timestamp = t
                   /\ data_frame[i].src = Max(RawPositions(t))

\* C2: the output rows are in non-decreasing timestamp order under a dense
\* 0-based index, whatever the order of the raw rows, and no row with an
\* unparseable timestamp is present.
C2_SortedDenseParsed ==
    prep_pc = "return" =>
        \A i \in 1..Len(data_frame) :
            /\ data_frame[i].index = i - 1
            /\ data_frame[i].timestamp # NaT
            /\ i < Len(data_frame) =>
                   data_frame[i].timestamp <= data_frame[i + 1].timestamp

\* a shuffled raw frame with an unparseable row has been prepared
C2_Witness ==
    /\ prep_pc = "return"
    /\ Len(raw_data_frame.rows) = 3
    /\ to_datetime(raw_data_frame.rows[1].timestamp) = 2
    /\ to_datetime(raw_data_frame.rows[2].timestamp) = NaT
    /\ to_datetime(raw_data_frame.rows[3].timestamp) = 1
    /\ Len(data_frame) = 2

ExpectedFoldCount ==
    IF total_rows < min_train_rows + min_valid_rows \/ n_splits < 2 THEN 0
    ELSE IF (total_rows - min_train_rows) \div n_splits >= min_valid_rows
         THEN n_splits
         ELSE (total_rows - min_train_rows) \div min_valid_rows

\* C3 (as claimed): for every argument tuple, every fold has train.stop <=
\* validation.start and a non-empty validation range within the data.
C3_FoldsWellFormedAnyArgs ==
    \A k \in 1..Len(folds) :
        /\ folds[k].train.stop <= folds[k].valid.start
        /\ folds[k].valid.start < folds[k].valid.stop
        /\ folds[k].valid.stop <= total_rows

\* C3 (amended): when min_valid_rows >= 1, every fold has train.stop <=
\* validation.start and a non-empty validation range within the data.
C3_FoldsWellFormed ==
    min_valid_rows >= 1 =>
        \A k \in 1..Len(folds) :
            /\ folds[k].train.stop <= folds[k].valid.start
            /\ folds[k].valid.start < folds[k].valid.stop
            /\ folds[k].valid.stop <= total_rows

\* several folds were returned for a positive min_valid_rows
C3_Witness ==
    /\ wf_pc = "return"
    /\ min_valid_rows >= 1
    /\ Len(folds) >= 3
    /\ folds[Len(folds)].valid.stop < total_rows

\* C4: every fold trains on exactly [0, validation.start); the first fold
\* trains on [0, min_train_rows); each later validation window starts where the
\* previous one ended, so the windows are disjoint and increasing and no fold
\* trains on a row at or after its own validation start.
C4_ExpandingWindow ==
    \A k \in 1..Len(folds) :
        /\ folds[k].train = slice(0, folds[k].valid.start)
        /\ k = 1 => folds[k].train.stop = min_train_rows
        /\ k > 1 => folds[k].valid.start = folds[k - 1].valid.stop
        /\ \A j \in 1..Len(folds) :
               j < k => folds[j].valid.stop <= folds[k].valid.start
        /\ \A row \in folds[k].train.start..(folds[k].train.stop - 1) :
               row < folds[k].valid.start

\* three folds whose training ranges grow
C4_Witness ==
    /\ wf_pc = "return"
    /\ Len(folds) = 3
    /\ min_train_rows >= 1
    /\ folds[1].train.stop < folds[2].train.stop
    /\ folds[2].train.stop < folds[3].train.stop

\* C5: with min_valid_rows >= 1 the number of folds returned is 0 on the early
\* returns, n_splits when (total_rows - min_train_rows) // n_splits >=
\* min_valid_rows and floor((total_rows - min_train_rows) / min_valid_rows)
\* otherwise (4 for the arguments 220, 4, 80, 20); it never exceeds n_splits,
\* and the loop terminates.
C5_FoldCount ==
    /\ [](Len(folds) <= n_splits)
    /\ []((wf_pc = "return" /\ min_valid_rows >= 1) =>
            Len(folds) = ExpectedFoldCount)
    /\ []((wf_pc = "return" /\ foldArgs = TestFoldArgs) => Len(folds) = 4)
    /\ <>(wf_pc = "return")

\* the call of the unit test has returned its 4 folds
C5_Witness ==
    /\ wf_pc = "return"
    /\ foldArgs = TestFoldArgs
    /\ Len(folds) = 4

\* C6: make_supervised_data fails with InvalidHorizon for every horizon_steps
\* < 1, whatever the columns (the check comes first), and with
\* MissingTargetColumns when light_lux or relay_light is absent; then no
\* supervised data is returned, and the input frame is never changed.
C6_SupervisedErrors ==
    /\ []((sup_pc \notin {"call", "idle"} /\ horizon_steps < 1) =>
            (sup_pc = "InvalidHorizon" /\ supervised = NoSupervised))
    /\ []((sup_pc \notin {"call", "idle"} /\ horizon_steps >= 1
              /\ ("light_lux" \notin feature_frame.columns
                     \/ "relay_light" \notin feature_frame.columns)) =>
            (sup_pc = "MissingTargetColumns" /\ supervised = NoSupervised))
    /\ [][feature_frame' = feature_frame]_vars

\* horizon 0 was rejected on a frame that also lacks a target column
C6_Witness ==
    /\ sup_pc = "InvalidHorizon"
    /\ horizon_steps = 0
    /\ "relay_light" \notin feature_frame.columns
    /\ Len(feature_frame.rows) = 3

\* the rows i of the frame whose row i + h holds both targets
RowsWithFutureTargets ==
    {i \in 1..Len(feature_frame.rows) :
        /\ i + horizon_steps <= Len(feature_frame.rows)
        /\ feature_frame.rows[i + horizon_steps].light_lux # NaN
        /\ feature_frame.rows[i + horizon_steps].relay_light # NaN}

NoTargetMissing ==
    \A i \in 1..Len(feature_frame.rows) :
        /\ feature_frame.rows[i].light_lux # NaN
        /\ feature_frame.rows[i].relay_light # NaN

\* C7: for h >= 1 on an N-row frame the number of rows returned is the number
\* of rows i whose light_lux and relay_light at row i + h are both present:
\* N - h when no target value is missing, 0 when h >= N; the feature matrix
\* has no timestamp column.
C7_SupervisedRowCount ==
    sup_pc = "return" =>
        LET n == Len(feature_frame.rows)
            got == Len(supervised.features.rows)
        IN /\ got = Cardinality(RowsWithFutureTargets)
           /\ (NoTargetMissing /\ horizon_steps < n) => got = n - horizon_steps
           /\ (NoTargetMissing /\ horizon_steps = 1 /\ n >= 1) => got = n - 1
           /\ horizon_steps >= n => got = 0
           /\ "timestamp" \notin supervised.features.columns

\* horizon 1 on a full 3-row frame with a timestamp column gave 2 rows
C7_Witness ==
    /\ sup_pc = "return"
    /\ horizon_steps = 1
    /\ Len(feature_frame.rows) = 3
    /\ NoTargetMissing
    /\ "timestamp" \in feature_frame.columns
    /\ Len(supervised.features.rows) = 2

\* C8: for every retained row i the light target is light_lux of input row
\* i + h and the relay target is relay_light of input row i + h; features and
\* both targets have the same row count and the same index.
C8_TargetsFromFutureRow ==
    sup_pc = "return" =>
        /\ Len(supervised.target_light) = Len(supervised.features.rows)
        /\ Len(supervised.target_relay) = Len(supervised.features.rows)
        /\ \A k \in 1..Len(supervised.features.rows) :
               LET i == supervised.features.rows[k].index
                   future == feature_frame.rows[i + 1 + horizon_steps]
               IN /\ i + 1 + horizon_steps <= Len(feature_frame.rows)
                  /\ supervised.target_light[k].index = i
                  /\ supervised.target_relay[k].index = i
                  /\ supervised.target_light[k].value = future.light_lux
                  /\ supervised.target_relay[k].value = future.relay_light
                  /\ supervised.features.rows[k].light_lux
                         = feature_frame.rows[i + 1].light_lux

\* a retained row whose targets differ from its own values
C8_Witness ==
    /\ sup_pc = "return"
    /\ horizon_steps = 2
    /\ Len(supervised.features.rows) = 1
    /\ supervised.target_light[1].value # supervised.features.rows[1].light_lux
    /\ supervised.target_relay[1].value # supervised.features.rows[1].relay_light

\* occurrences of a label in a series, and the number of distinct classes
Occurrences(series, label) ==
    Cardinality({i \in 1..Len(series) : series[i] = label})
Distinct(series) ==
    Cardinality({label \in {0, 1 * Scale} : Occurrences(series, label) > 0})

\* a split has fewer than two classes, or a class is short in a split
GateShouldFail ==
    \/ Distinct(train_y) < 2
    \/ Distinct(valid_y) < 2
    \/ \E label \in {0, 1 * Scale} :
           \/ Occurrences(train_y, label) < min_class_count
           \/ Occurrences(valid_y, label) < min_class_count

\* C9: the gate returns passed = False with a non-empty issue list whenever a
\* split has fewer than two distinct classes or a class occurs fewer than
\* min_class_count times in a split, and passed = True only otherwise; for the
\* series of the unit test the issues cite the class-1 shortfall in both
\* splits; the flag, summary.passed and the emptiness of the issues agree.
C9_QualityGate ==
    gate_pc = "return" =>
        /\ GateShouldFail => (~gate.passed /\ Len(gate.issues) >= 1)
        /\ gate.passed => ~GateShouldFail
        /\ gate.passed = gate.summary.passed
        /\ gate.passed <=> (gate.issues = <<>>)
        /\ gate.summary.issues = gate.issues
        /\ (train_y = TestTrainY /\ valid_y = TestValidY
                /\ min_class_count = TestMinClassCount) =>
               /\ ~gate.passed
               /\ \E k \in 1..Len(gate.issues) :
                      gate.issues[k] = [split |-> "train", issue |-> "count too low",
                                        class |-> 1 * Scale, count |-> 3]
               /\ \E k \in 1..Len(gate.issues) :
                      gate.issues[k] = [split |-> "validation", issue |-> "count too low",
                                        class |-> 1 * Scale, count |-> 1]

\* the gate has failed the series of the unit test with two issues
C9_Witness ==
    /\ gate_pc = "return"
    /\ train_y = TestTrainY
    /\ valid_y = TestValidY
    /\ ~gate.passed
    /\ Len(gate.issues) = 2

\* the positions of a run at which the quality gate has been evaluated
AfterGate ==
    {"gated", "QualityGateFailed", "XGBoostUnavailable", "UnsupportedModelFamily",
     "regression", "RegressionFitError", "NoViableModel", "classifier",
     "classification", "ClassifierFitError", "persist", "report",
     "ReportFitError", "done"}

GateFailed == tp_pc \in AfterGate /\ ~relay_quality_gate.passed

RegressionCandidates ==
    Range(select_candidate_models(build_candidates(cfg.xgboost_available),
                                  cfg.model_family))

\* C10: when the quality gate fails, a strict run goes no further than raising
\* QualityGateFailed, with no candidate of either kind fitted and nothing
\* written; a non-strict run never raises QualityGateFailed and never fits a
\* classification candidate, and once its regression search has returned,
\* every selected regression candidate has been tried and the winner has a
\* score; once the artifacts are written the regression model on disk is the
\* winner and no classification model was written; the report, once written,
\* names the winner, has relay_light null, quality_gate.passed false, and the
\* gate's skip reason among its notes.
C10_GateFailureHandling ==
    GateFailed =>
        /\ fitted.classification = {}
        /\ tp_pc \notin {"classification", "ClassifierFitError"}
        /\ cfg.strict_relay_quality =>
              /\ tp_pc \in {"gated", "QualityGateFailed"}
              /\ fitted.regression = {}
              /\ disk.light_forecast_model = None
              /\ ~disk.training_report.written
        /\ ~cfg.strict_relay_quality =>
              /\ tp_pc # "QualityGateFailed"
              /\ tp_pc \in {"classifier", "persist", "report", "ReportFitError", "done"} =>
                    /\ fitted.regression = RegressionCandidates
                    /\ reg.best_name \in RegressionCandidates
                    /\ \E k \in 1..Len(reg.scores) : reg.scores[k].name = reg.best_name
              /\ tp_pc \in {"report", "ReportFitError", "done"} =>
                    /\ disk.light_forecast_model = reg.best_name
                    /\ disk.relay_light_model = None
              /\ tp_pc = "done" =>
                    /\ disk.training_report = report
                    /\ report.written
                    /\ report.best_models.light_forecast = reg.best_name
                    /\ report.best_models.relay_light = None
                    /\ report.metrics.classification = <<>>
                    /\ ~report.quality_gate.passed
                    /\ ~report.quality_gate.summary.passed
                    /\ note("skip_reason", "quality gate failed") \in Range(report.notes)
                    /\ note("note", "quality gate failed") \in Range(report.notes)

\* a non-strict run over a recording whose relay only switches late: the gate
\* failed, both regression candidates were scored over two folds, and the
\* report is written
C10_Witness ==
    /\ tp_pc = "done"
    /\ ~cfg.strict_relay_quality
    /\ cfg.pattern = "late_on"
    /\ cfg.rows_used = 120
    /\ ~relay_quality_gate.passed
    /\ Len(walk_forward_folds) = 2
    /\ Len(reg.scores) = 2
    /\ report.best_models.light_forecast = "random_forest"
    /\ report.best_models.relay_light = None
    /\ disk.light_forecast_model = "random_forest"

\* a strict run stopped by the gate
C10_StrictRaised ==
    tp_pc = "QualityGateFailed" /\ cfg.strict_relay_quality /\ fitted.regression = {}

\* C11: after a completed run whose gate failed, or that produced no
\* classifier, the output directory holds no classification model; and the
\* classification model, feature_columns.json and training_report.json of
\* the directory were written by the same run.
C11_NoStaleClassifier ==
    tp_pc = "done" =>
        /\ (~relay_quality_gate.passed \/ cls.best_name = None) =>
               disk.relay_light_model = None
        /\ disk.relay_light_model # None =>
               /\ disk.written_by.relay_light_model = disk.written_by.feature_columns
               /\ disk.written_by.relay_light_model = disk.written_by.training_report


\* the positions of a run at which fit_best_regressor has returned
RegressorReturned ==
    {"classifier", "classification", "ClassifierFitError", "persist", "report",
     "ReportFitError", "done"}

\* the positions of a run at which the classifier stage is over
ClassifierReturned == {"persist", "report", "ReportFitError", "done"}

\* the place of the returned candidate among the scored ones, which stand in
\* registry order
BestIndex(search) ==
    CHOOSE b \in 1..Len(search.scores) : search.scores[b].name = search.best_name

\* C12: the regressor returned has the lowest selection score among the
\* scored candidates and the classifier returned the highest, and no scored
\* candidate earlier in registry order attains the same score.
C12_BestCandidateReturned ==
    /\ tp_pc \in RegressorReturned =>
          /\ \E b \in 1..Len(reg.scores) : reg.scores[b].name = reg.best_name
          /\ \A k \in 1..Len(reg.scores) :
                /\ reg.scores[BestIndex(reg)].selection_score
                       <= reg.scores[k].selection_score
                /\ reg.scores[BestIndex(reg)].selection_score
                       = reg.scores[k].selection_score => BestIndex(reg) <= k
    /\ (tp_pc \in ClassifierReturned /\ cls.best_name # None) =>
          /\ \E b \in 1..Len(cls.scores) : cls.scores[b].name = cls.best_name
          /\ \A k \in 1..Len(cls.scores) :
                /\ cls.scores[BestIndex(cls)].selection_score
                       >= cls.scores[k].selection_score
                /\ cls.scores[BestIndex(cls)].selection_score
                       = cls.scores[k].selection_score => BestIndex(cls) <= k

\* both searches scored two candidates with equal selection scores and each
\* returned the first of the registry
C12_Witness ==
    /\ tp_pc = "done"
    /\ Len(reg.scores) = 2
    /\ reg.scores[1].selection_score = reg.scores[2].selection_score
    /\ reg.best_name = "hist_gradient_boosting"
    /\ Len(cls.scores) = 2
    /\ cls.scores[1].selection_score = cls.scores[2].selection_score
    /\ cls.best_name = "hist_gradient_boosting"
    /\ Len(walk_forward_folds) = 2


\* the selection score and mode an entry of the scores should carry
entry_follows_policy(entry, factor, sign, holdout_mode) ==
    IF entry.walk_forward_folds_run >= 2
    THEN /\ entry.selection_score =
                entry.walk_forward.mean + sign * ((factor * entry.walk_forward.std) \div 100)
         /\ entry.selection_mode = "walk_forward_stability"
    ELSE /\ entry.selection_score = entry.holdout
         /\ entry.selection_mode = holdout_mode

\* the summary kept for the winner is the one its entry was scored from, and
\* it covers the folds that could run
winner_summary_matches(search, folds_runnable) ==
    /\ search.best_walk_forward.metrics = search.scores[BestIndex(search)].walk_forward
    /\ search.best_walk_forward.folds_run = folds_runnable
    /\ Len(search.best_walk_forward.by_fold) = folds_runnable
    /\ search.scores[BestIndex(search)].walk_forward_folds_run = folds_runnable
    /\ search.best_walk_forward.metrics = mean_std(search.best_walk_forward.by_fold)

\* C13: every scored candidate's selection score is its holdout metric,
\* unless at least two walk-forward folds ran for it, and then it is
\* mean + 0.25 * std of the fold MAE (regression) or mean - 0.10 * std of the
\* fold F1 (classification) over the folds that ran; the selection mode
\* returned, and reported per target, is the mode of the winner's score.
C13_SelectionScoreAndMode ==
    /\ \A k \in 1..Len(reg.scores) :
          entry_follows_policy(reg.scores[k], 25, 1, "holdout_mae")
    /\ \A k \in 1..Len(cls.scores) :
          entry_follows_policy(cls.scores[k], 10, -1, "holdout_f1")
    /\ tp_pc \in RegressorReturned =>
          /\ reg.selection_mode = reg.scores[BestIndex(reg)].selection_mode
          /\ winner_summary_matches(reg, Len(walk_forward_folds))
    /\ (tp_pc \in ClassifierReturned /\ cls.best_name # None) =>
          /\ cls.selection_mode = cls.scores[BestIndex(cls)].selection_mode
          /\ winner_summary_matches(
                 cls, Len(runnable_folds(walk_forward_folds, target_relay)))
    /\ tp_pc = "done" =>
          /\ report.model_selection.light_forecast = reg.selection_mode
          /\ report.model_selection.relay_light = cls.selection_mode

\* two folds ran for both winners, whose scores are the stability-adjusted
\* ones and differ from their holdout metrics
C13_Witness ==
    /\ tp_pc = "done"
    /\ Len(walk_forward_folds) = 2
    /\ cls.best_name # None
    /\ report.model_selection.light_forecast = "walk_forward_stability"
    /\ report.model_selection.relay_light = "walk_forward_stability"
    /\ reg.scores[BestIndex(reg)].selection_score = 1050
    /\ reg.scores[BestIndex(reg)].holdout = 1000
    /\ cls.scores[BestIndex(cls)].selection_score = 79
    /\ cls.scores[BestIndex(cls)].holdout = 80


\* the std read by the functions: None counts as 0
StdOrZero == IF stab_metrics.std = NoValue THEN 0 ELSE stab_metrics.std

\* C14: stability_adjusted_regression_loss returns mean + 0.25 * std (to the
\* hundredth), 10.5 for mean 10.0 and std 2.0; the classification score is
\* mean - 0.10 * std, 0.79 for mean 0.8 and std 0.1; each returns None when
\* the mean is None, and reads a None std as 0.
C14_StabilityAdjusted ==
    /\ stab_pc = "regression_loss" =>
          IF stab_metrics.mean = NoValue THEN stability = NoValue
          ELSE /\ stability # NoValue
               /\ 100 * stability <= 100 * stab_metrics.mean + 25 * StdOrZero
               /\ 100 * stab_metrics.mean + 25 * StdOrZero < 100 * (stability + 1)
               /\ stab_metrics = TestMaeMetrics => stability = 1050
    /\ stab_pc = "classification_score" =>
          IF stab_metrics.mean = NoValue THEN stability = NoValue
          ELSE /\ stability # NoValue
               /\ 100 * stability >= 100 * stab_metrics.mean - 10 * StdOrZero
               /\ 100 * stab_metrics.mean - 10 * StdOrZero > 100 * (stability - 1)
               /\ stab_metrics = TestF1Metrics => stability = 79

\* the classification score of the unit test's metrics
C14_Witness ==
    /\ stab_pc = "classification_score"
    /\ stab_metrics = TestF1Metrics
    /\ stability = 79


ScoredNames(search) == {search.scores[k].name : k \in 1..Len(search.scores)}

\* C15: a candidate whose fit raises, on the holdout training range or on a
\* walk-forward fold re-fit, never aborts the run; it is recorded as a
\* warning and is not selected, and the warning is among the report's notes.
C15_FitFailureNonFatal ==
    /\ tp_pc \notin {"RegressionFitError", "ClassifierFitError"}
    /\ fitted.regression = ScoredNames(reg) \cup Range(reg.warnings)
    /\ reg.best_name \notin Range(reg.warnings)
    /\ cls.best_name \notin Range(cls.warnings)
    /\ tp_pc = "done" =>
          /\ \A k \in 1..Len(reg.warnings) :
                note("skipped regression model", reg.warnings[k]) \in Range(report.notes)
          /\ \A k \in 1..Len(cls.warnings) :
                note("skipped classification model", cls.warnings[k])
                    \in Range(report.notes)


\* the positions of a run at which fit_best_regressor is over
RegressorOver == RegressorReturned \cup {"NoViableModel", "RegressionFitError"}

\* C16: fit_best_regressor ends with NoViableModel exactly when the fit of
\* every regression candidate raised, and returns a chosen candidate
\* whenever at least one candidate was fitted and scored.
C16_NoViableModelExactly ==
    /\ tp_pc = "NoViableModel" =>
          /\ reg.scores = <<>>
          /\ Range(reg.warnings) = RegressionCandidates
    /\ tp_pc \in RegressorOver =>
          IF reg.scores = <<>>
          THEN tp_pc = "NoViableModel"
          ELSE /\ tp_pc \in RegressorReturned
               /\ reg.best_name \in ScoredNames(reg)


\* C17: train_pipeline ends with InsufficientData exactly when the
\* supervised frame has fewer than 40 rows, and does so before the split, the
\* quality gate, the folds and any candidate fit.
C17_InsufficientData ==
    /\ tp_pc = "InsufficientData" =>
          /\ load_error(cfg) = None
          /\ cfg.rows_used < 40
          /\ split_index = 0
          /\ relay_quality_gate = NoGate
          /\ walk_forward_folds = <<>>
          /\ reg = NoSearch
          /\ cls = NoSearch
          /\ fitted = [regression |-> {}, classification |-> {}]
    /\ (tp_pc \notin {"idle", "call"} /\ load_error(cfg) = None /\ cfg.rows_used < 40) =>
          tp_pc = "InsufficientData"
    /\ (tp_pc \notin {"idle", "call"} /\ load_error(cfg) = None /\ cfg.rows_used >= 40) =>
          tp_pc \in AfterGate

\* a run over 39 supervised rows has been refused
C17_Witness ==
    /\ tp_pc = "InsufficientData"
    /\ cfg.rows_used = 39
    /\ disk.output_dir


\* the failures named by the claim
AbortsWithoutArtifacts ==
    {"DatasetNotFound", "DatasetEmpty", "InvalidHorizon", "MissingTargetColumns",
     "InsufficientData", "QualityGateFailed", "NoViableModel"}

ArtifactFiles ==
    {"light_forecast_model", "relay_light_model", "feature_columns", "training_report"}

\* C18: when a run aborts with DatasetNotFound, DatasetEmpty, InvalidHorizon,
\* MissingTargetColumns, InsufficientData, QualityGateFailed or
\* NoViableModel, it has written none of the artifact files: each is as the
\* runs before left it.
C18_NoArtifactsOnAbort ==
    tp_pc \in AbortsWithoutArtifacts =>
        /\ \A file \in ArtifactFiles : disk.written_by[file] # run
        /\ ~report.written
        /\ run = 1 =>
              /\ disk.light_forecast_model = None
              /\ disk.relay_light_model = None
              /\ ~disk.feature_columns
              /\ ~disk.training_report.written

\* a second run into the directory of a completed run found no viable
\* regressor: the four artifacts are those of the first run
C18_Witness ==
    /\ tp_pc = "NoViableModel"
    /\ run = 2
    /\ \A file \in ArtifactFiles : disk.written_by[file] = 1
    /\ disk.training_report.written
    /\ disk.feature_columns


NonFinite(value) == value.kind = "float" /\ value.num \in {NaN, Infinity, -Infinity}

\* out has the shape of in, None where in has a non-finite float and the
\* value of in everywhere else
RECURSIVE SameButNonFinite(_, _)
SameButNonFinite(in, out) ==
    IF in.kind \in {"dict", "list"}
    THEN /\ out.kind = in.kind
         /\ out.keys = in.keys
         /\ Len(out.items) = Len(in.items)
         /\ \A i \in 1..Len(in.items) : SameButNonFinite(in.items[i], out.items[i])
    ELSE IF NonFinite(in) THEN out = PyNone ELSE out = in

RECURSIVE HoldsNonFinite(_)
HoldsNonFinite(value) ==
    \/ NonFinite(value)
    \/ \E i \in 1..Len(value.items) : HoldsNonFinite(value.items[i])

\* C19: sanitize_metrics returns a structure of the shape of its input in
\* which every NaN or +/-Infinity float, however deep in dicts and lists, is
\* None and every other value is unchanged; the result holds no non-finite
\* number, and sanitizing it again changes nothing.
C19_SanitizeMetrics ==
    san_pc = "return" =>
        /\ SameButNonFinite(san_report, san_result)
        /\ ~HoldsNonFinite(san_result)
        /\ sanitize_value_tree(san_result) = san_result

\* a NaN three containers deep (dict, list, dict) became None, next to a
\* string left alone
C19_Witness ==
    /\ san_pc = "return"
    /\ san_report = Dict(<<"metrics", "notes">>,
                         <<List(<<Dict(<<"mae">>, <<Scalar("float", NaN)>>)>>),
                           Scalar("str", NaN)>>)
    /\ san_result = Dict(<<"metrics", "notes">>,
                         <<List(<<Dict(<<"mae">>, <<PyNone>>)>>), Scalar("str", NaN)>>)


UniqueLabels(columns) ==
    \A i, j \in 1..Len(columns) : i # j => columns[i] # columns[j]

\* the value the input frame holds under a label it has once
InputValue(label) ==
    input_frame.row[CHOOSE p \in 1..Len(input_frame.columns) :
                        input_frame.columns[p] = label]

\* the returned columns are the expected list, a missing one holds NA and a
\* shared one the input's value
AlignedAsExpected ==
    /\ aligned.columns = expected_columns
    /\ Len(aligned.row) = Len(expected_columns)
    /\ \A i \in 1..Len(expected_columns) :
          IF expected_columns[i] \in Range(input_frame.columns)
          THEN i <= Len(aligned.row) /\ aligned.row[i] = InputValue(expected_columns[i])
          ELSE i <= Len(aligned.row) /\ aligned.row[i] = PdNA

\* C20 as stated: for every input frame, align_columns returns exactly the
\* expected columns in the expected order, missing ones holding NA, other
\* input columns dropped, shared values kept, and the input frame unchanged.
C20_AlignColumnsAnyFrame ==
    /\ [](align_pc = "return" => AlignedAsExpected)
    /\ [][input_frame' = input_frame]_vars

\* C20, for input frames whose column labels are distinct: align_columns
\* returns exactly the expected columns in the expected order, missing ones
\* holding NA, other input columns dropped, shared values kept, and the
\* input frame unchanged.
C20_AlignColumns ==
    /\ []((align_pc = "return" /\ UniqueLabels(input_frame.columns)) =>
              AlignedAsExpected)
    /\ [][input_frame' = input_frame]_vars

\* the unit test: columns b, a aligned to a, b, c
C20_Witness ==
    /\ align_pc = "return"
    /\ input_frame = TestInputFrame
    /\ expected_columns = TestExpectedColumns
    /\ aligned = [columns |-> <<"a", "b", "c">>, row |-> <<1, 2, PdNA>>]


\* ---- C21
\* the candidate a search over the registry returns, read off the fit
\* outcomes alone: the first name in registry order whose score no scored
\* candidate beats; None when every fit raised
RegistryChoice(outcomes, beats(_, _)) ==
    LET registry == build_candidates(TRUE)
        scored == {k \in 1..Len(registry) : outcomes[registry[k]] # NoValue}
        best == {k \in scored :
                    \A j \in scored : ~beats(outcomes[registry[j]], outcomes[registry[k]])}
    IN IF scored = {} THEN None
       ELSE registry[CHOOSE k \in best : \A j \in best : k <= j]

TwinFinished(r) == twin_runs[r].pc \in {"done", "NoViableModel"}

C22_BinaryValuesZeroOrOne ==
    prep_pc = "return" =>
        \A i \in 1..Len(data_frame) :
            data_frame[i].relay_light \in {NaN, 0 * Scale, 1 * Scale}


\* ---- C26
\* C26: for every supervised row count of at least 40 and every train
\* ratio, the split leaves at least 20 training rows and at least 10
\* validation rows; the training rows are the first split_index rows and the
\* validation rows the rest, so every validation row is later in time than
\* every training row.
C26_SplitBounds ==
    split_pc = "split" =>
        /\ Len(split_frames.train_x) >= 20
        /\ Len(split_frames.valid_x) >= 10
        /\ Len(split_frames.train_x) = split_frames.split_index
        /\ Len(split_frames.train_x) + Len(split_frames.valid_x) = split_rows
        /\ split_frames.train_x \o split_frames.valid_x = [i \in 1..split_rows |-> i]
        /\ \A t \in Range(split_frames.train_x), v \in Range(split_frames.valid_x) : t < v

\* the smallest frame under a ratio that asks for fewer than 20 training
\* rows: both clamps meet at 20 training rows
C26_Witness ==
    /\ split_pc = "split"
    /\ split_rows = 40
    /\ split_train_ratio = 10
    /\ split_frames.split_index = 20
    /\ Len(split_frames.valid_x) = 20


\* ---- C27
\* the folds of the list whose training range holds both classes
TwoClassFolds ==
    {k \in 1..Len(cw_folds) :
        {0, 1 * Scale} \subseteq
            {cw_target[i] : i \in (cw_folds[k].train.start + 1)..cw_folds[k].train.stop}}

\* C27: run_walk_forward_classification skips every fold whose training
\* range has fewer than two classes and never raises on one; when it returns,
\* folds_run + folds_skipped is the number of folds, by_fold and the metrics
\* hold the two-class folds only, and with no two-class fold every mean and
\* std is absent.
C27_SingleClassFoldsSkipped ==
    /\ cw_pc = "raise" => cw_loop.idx \in TwoClassFolds
    /\ cw_pc = "return" =>
          /\ cw_result.folds_run + cw_result.folds_skipped = Len(cw_folds)
          /\ cw_result.folds_skipped = Len(cw_folds) - Cardinality(TwoClassFolds)
          /\ {e.fold : e \in Range(cw_result.by_fold)} = TwoClassFolds
          /\ cw_result.metrics.f1 =
                 mean_std([k \in 1..Len(cw_result.by_fold) |-> cw_result.by_fold[k].f1])
          /\ TwoClassFolds = {} =>
                 /\ cw_result.by_fold = <<>>
                 /\ \A m \in {cw_result.metrics.f1, cw_result.metrics.roc_auc} :
                        m.mean = NoValue /\ m.std = NoValue

\* a list of a single-class fold and a two-class fold: one skipped, one run
C27_Witness ==
    /\ cw_pc = "return"
    /\ cw_target = <<0, 1 * Scale, 0>>
    /\ cw_folds = <<[train |-> slice(0, 1), valid |-> slice(1, 3)],
                    [train |-> slice(0, 2), valid |-> slice(2, 3)]>>
    /\ cw_result.folds_run = 1
    /\ cw_result.folds_skipped = 1
    /\ cw_result.by_fold[1].fold = 2

\* a list without a two-class fold returns the absent metrics
C27_WitnessNoneRunnable ==
    /\ cw_pc = "return"
    /\ Len(cw_folds) = 2
    /\ cw_result.folds_skipped = 2
    /\ cw_result.metrics.f1.mean = NoValue


\* ---- C28
\* the entries of one search were all scored in one mode, on one number of
\* folds run, and a returned selection mode is that mode
OneSelectionMode(search) ==
    /\ \A i, j \in 1..Len(search.scores) :
          /\ search.scores[i].selection_mode = search.scores[j].selection_mode
          /\ search.scores[i].walk_forward_folds_run =
                 search.scores[j].walk_forward_folds_run
    /\ search.best_name # None /\ search.scores # <<>> =>
          search.selection_mode = search.scores[1].selection_mode

\* C28: within one call of fit_best_regressor or fit_best_classifier every
\* scored candidate's selection score is of one kind, holdout or
\* walk-forward stability: the scores compared are never of mixed kinds.
C28_OneSelectionMode == OneSelectionMode(reg) /\ OneSelectionMode(cls)

\* both searches scored two candidates on two folds each
C28_Witness ==
    /\ tp_pc = "done"
    /\ Len(reg.scores) = 2
    /\ Len(cls.scores) = 2
    /\ reg.scores[2].selection_mode = "walk_forward_stability"
    /\ cls.scores[2].selection_mode = "walk_forward_stability"
    /\ reg.scores[1].selection_score # reg.scores[2].selection_score
    /\ cls.scores[1].selection_score # cls.scores[2].selection_score

\* one fold only: both searches fall back to the holdout metric
C28_WitnessHoldout ==
    /\ tp_pc = "done"
    /\ Len(walk_forward_folds) = 1
    /\ Len(cls.scores) = 2
    /\ cls.scores[1].selection_mode = "holdout_f1"
    /\ cls.scores[1].walk_forward_folds_run = 1


\* ---- C23
\* the rows of the batches, one after the other
RECURSIVE Concat(_)
Concat(batches) == IF batches = <<>> THEN <<>> ELSE Head(batches) \o Concat(Tail(batches))

\* the persisted cursor
Cursor == load_state(cs_state_file)

\* at every moment the cursor is within the CSV and the batches posted so
\* far are rows 1..cursor, in order, each once
PostedUpToCursor ==
    /\ 0 <= Cursor /\ Cursor <= cs_event_csv
    /\ Concat(cs_posted) = [k \in 1..Cursor |-> k]

\* a successful post sends rows[cursor : cursor + batch_size], saves the
\* cursor past them and reports the batch length and what is left; no step
\* moves the cursor back
SuccessfulPostStep ==
    /\ load_state(cs_state_file') >= Cursor
    /\ cs_posted' # cs_posted =>
          /\ cs_payload' = [k \in 1..(Min2(Cursor + cs_client.batch_size, cs_event_csv) - Cursor)
                               |-> Cursor + k]
          /\ cs_posted' = Append(cs_posted, cs_payload')
          /\ load_state(cs_state_file') = Cursor + Len(cs_payload')
          /\ cs_result'.ok
          /\ cs_result'.synced = Len(cs_payload')
          /\ cs_result'.pending = cs_event_csv - load_state(cs_state_file')
          /\ cs_result'.last_synced_row = load_state(cs_state_file')

\* C23: a successful sync_once sends rows[cursor : cursor + batch_size],
\* persists cursor + len(batch) and reports synced = len(batch) and pending =
\* rows - new cursor; over any calls on an append-only CSV the persisted
\* cursor never decreases, never exceeds the row count, and the posted
\* batches cover the rows contiguously, in order, each row once.
C23_CursorAndBatches == []PostedUpToCursor /\ [][SuccessfulPostStep]_vars

\* two batches of two rows, the second posted after the CSV grew
C23_Witness ==
    /\ cs_posted = <<<<1, 2>>, <<3, 4>>>>
    /\ cs_client.batch_size = 2
    /\ cs_result.synced = 2
    /\ cs_result.pending = 0
    /\ cs_state_file = [kind |-> "json", last_synced_row |-> 4]


\* ---- C29
FailedPostStatuses == {"http-304", "http-500", "network-error", "unexpected-error"}

\* a call that reports ok came with a 2xx status or found nothing to send;
\* the unconfigured client and every failed post report ok = False, synced = 0
FailureReported ==
    /\ cs_result.status = "ok" =>
          cs_result.ok /\ 200 <= cs_result.http_status /\ cs_result.http_status < 300
    /\ cs_result.status \in FailedPostStatuses \cup {"not-configured"} =>
          ~cs_result.ok /\ cs_result.synced = 0
    /\ ~cs_client.configured /\ cs_result # NoSyncResult =>
          cs_result.status = "not-configured"

\* a call that ends in a failure leaves the cursor file and the posted
\* batches as they were, and the post after a failed post starts at the same
\* row
FailedCallStep ==
    /\ (cs_result' # cs_result \/ cs_payload' # cs_payload) /\ ~cs_result'.ok =>
          /\ cs_state_file' = cs_state_file
          /\ cs_posted' = cs_posted
    /\ cs_result.status \in FailedPostStatuses =>
          Head(cs_payload') = Head(cs_payload)

\* every row of the CSV has been posted and the last call said so
AllRowsSent ==
    /\ cs_result.status = "up-to-date"
    /\ Concat(cs_posted) = read_rows(cs_event_csv)

\* C29: an unconfigured client or a failed post (HTTP error, network error,
\* non-2xx status) makes sync_once report ok = False with synced = 0 and
\* leave the cursor file unchanged, so the next call sends the batch from the
\* same row again; when posts that can succeed do succeed, repeated calls
\* reach "up-to-date" with every row sent.
C29_FailureKeepsCursor ==
    /\ []FailureReported
    /\ [][FailedCallStep]_vars
    /\ (cs_client.configured ~> AllRowsSent)

\* a post fails after an earlier one succeeded: the cursor stays at 2 and
\* rows 3 and 4 are still pending
C29_Witness ==
    /\ cs_result.status = "network-error"
    /\ cs_result.synced = 0
    /\ cs_result.pending = 2
    /\ cs_payload = <<3, 4>>
    /\ cs_posted = <<<<1, 2>>>>
    /\ cs_state_file = [kind |-> "json", last_synced_row |-> 2]


\* ---- C24
\* a call is seen in a step by its record or by a new dispatch
CallStep == tn_call' # tn_call \/ tn_dispatched' # tn_dispatched

\* the time of the last call for the key that returned True, NoValue if none
LastAccepted(key) ==
    IF tn_dispatched[key] = <<>> THEN NoValue
    ELSE tn_dispatched[key][Len(tn_dispatched[key])]

\* the call's cooldown has elapsed since the last accepted call for its key
CooldownElapsed(call) ==
    \/ LastAccepted(call.key) = NoValue
    \/ call.now - LastAccepted(call.key) >= call.cooldown

\* a call that returns True came after the cooldown and dispatched one
\* message for its key; a call that returns False dispatched nothing and left
\* the recorded times alone; no call touches another key
CooldownStep ==
    CallStep =>
        /\ tn_call'.returned =>
              /\ CooldownElapsed(tn_call')
              /\ tn_dispatched' = [tn_dispatched EXCEPT
                                      ![tn_call'.key] = Append(@, tn_call'.now)]
        /\ ~tn_call'.returned =>
              /\ tn_dispatched' = tn_dispatched
              /\ tn_last_sent' = tn_last_sent
        /\ \A other \in AlertKeys \ {tn_call'.key} :
              /\ tn_dispatched'[other] = tn_dispatched[other]
              /\ tn_last_sent'[other] = tn_last_sent[other]

\* C24 (as claimed): besides the above, every call made once the cooldown
\* has elapsed is accepted.
C24_CooldownAnyNotifier ==
    [][CooldownStep /\ (CallStep /\ CooldownElapsed(tn_call') => tn_call'.returned)]_vars

\* C24 (amended): on an enabled notifier, per key, a call returns True and
\* dispatches a message only if the cooldown has elapsed since the last call
\* that returned True for that key; a rejected call returns False, dispatches
\* nothing and does not restart the clock; a call made once the cooldown has
\* elapsed is accepted; the keys are independent.  A notifier that is not
\* enabled rejects every call.
C24_Cooldown ==
    [][/\ CooldownStep
       /\ CallStep /\ tn_enabled /\ CooldownElapsed(tn_call') => tn_call'.returned
       /\ CallStep /\ ~tn_enabled => ~tn_call'.returned]_vars

\* the unit test's calls at 1000, 1010 and 1071 with the cooldown of 60, and
\* a call for the other key accepted in between
C24_Witness ==
    /\ tn_enabled
    /\ tn_dispatched["flame"] = <<1000, 1071>>
    /\ tn_dispatched["soil_dry"] = <<1010>>
    /\ tn_call = [key |-> "flame", now |-> 1071, cooldown |-> 60, returned |-> TRUE]


\* ---- C25
\* the step handled the update now in tg_update
UpdateStep == tg_pc = "loop" /\ tg_pending' = tg_pending - 1

\* the largest of the offsets, None (NoValue) ranking below every number
MaxOffset(offsets) == CHOOSE m \in offsets : \A x \in offsets : x <= m

\* a command runs only for a message of the configured chat: any other
\* update leaves the serial line, the replies and the override alone, and the
\* configured chat's /fan_on writes F and is answered
OnlyConfiguredChat ==
    UpdateStep =>
        /\ tg_writes' # <<>> \/ tg_sent' # <<>> => tg_update'.chat_id = TestChatId
        /\ tg_update'.chat_id # TestChatId =>
              tg_writes' = <<>> /\ tg_sent' = <<>> /\ tg_override' = tg_override
        /\ tg_update'.kind = "text" /\ tg_update'.chat_id = TestChatId
               /\ tg_update'.text = "/fan_on" =>
              "F" \in Range(tg_writes') /\ Len(tg_sent') = 1

\* the offset returned is the largest of the offset passed in and the
\* update_id + 1 of every update received; a failed fetch returns the offset
\* passed in with ok = False; the loop's offset never goes down
OffsetAdvances ==
    /\ tg_next_offset' >= tg_next_offset
    /\ tg_pc = "loop" /\ tg_pc' = "call" =>
          /\ tg_returned'.ok
          /\ tg_returned'.next_offset =
                 MaxOffset({tg_next_offset} \cup {id + 1 : id \in tg_seen})
          /\ tg_next_offset' = tg_returned'.next_offset
    /\ tg_pc = "fetch" /\ tg_pc' = "call" =>
          /\ ~tg_returned'.ok
          /\ tg_returned'.next_offset = tg_next_offset
          /\ tg_next_offset' = tg_next_offset

\* C25: process_telegram_updates runs a command (serial write and reply)
\* only for messages of the configured chat; a message from another chat
\* causes no serial write and no reply; the returned offset is the maximum of
\* the previous offset and update_id + 1 over all received updates, authorized
\* or not; a failed fetch returns the offset unchanged with ok = False.
C25_AuthorizedCommandsAndOffset == [][OnlyConfiguredChat /\ OffsetAdvances]_vars

\* a call that received update 7 and then update 99 from another chat
\* returned 100 without a write or a reply for the latter
C25_Witness ==
    /\ tg_pc = "call"
    /\ tg_returned = [next_offset |-> 100, ok |-> TRUE]
    /\ tg_seen = {7, 99}
    /\ tg_update = [update_id |-> 99, kind |-> "text", chat_id |-> "100", text |-> "/fan_on"]
    /\ tg_override = NoOverride

\* ---- C30
RelayCommands ==
    {"/fan_on", "/fan_off", "/pump_on", "/pump_off", "/light_on", "/light_off",
     "/buzzer_on", "/buzzer_off", "/all_off"}

\* the update handled in the step is a command text from the configured chat
Commanded(texts) ==
    /\ UpdateStep
    /\ tg_update'.kind = "text"
    /\ tg_update'.chat_id = TestChatId
    /\ tg_update'.text \in texts

\* a relay command writes "a" first, then relay commands only, and starts
\* an override whose deadline is now + hold, or none with a hold of 0
RelayCommandStep ==
    Commanded(RelayCommands) =>
        /\ Len(tg_writes') >= 2
        /\ tg_writes'[1] = "a"
        /\ \A k \in 2..Len(tg_writes') : tg_writes'[k] \in {"F", "f", "P", "p", "L", "l", "B", "b"}
        /\ tg_override'.active
        /\ tg_override'.until = IF tg_hold > 0 THEN tg_now + tg_hold ELSE NoValue

\* a step of the polling loop, as against the clock moving on
HandlerStep == tg_pc' # tg_pc \/ tg_pending' # tg_pending

\* "A" is written by the resume check of an active override whose deadline
\* has passed, which clears the override, or by /automation_on
ResumeStep ==
    HandlerStep /\ "A" \in Range(tg_writes') =>
        \/ /\ tg_pc = "call"
           /\ tg_override.active
           /\ tg_override.until # NoValue
           /\ tg_now >= tg_override.until
           /\ tg_override' = NoOverride
        \/ Commanded({"/automation_on"})

\* the automation commands clear the override, and the resume check of an
\* inactive override writes nothing
AutomationCommandStep ==
    /\ Commanded({"/automation_on", "/automation_off"}) => tg_override' = NoOverride
    /\ tg_pc = "call" /\ ~tg_override.active => tg_writes' = <<>>

\* with a hold of 0 only a command ends the override
NoExpiryStep ==
    tg_hold = 0 /\ tg_override.active /\ ~UpdateStep =>
        /\ tg_override' = tg_override
        /\ HandlerStep => "A" \notin Range(tg_writes')

\* C30: every Telegram relay command sends "a" before the relay command and
\* starts the override with a fresh deadline; the automatic "A" is sent only
\* while the override is active and its deadline has passed, once, after
\* which the override is cleared; /automation_on and /automation_off clear
\* the override so that no automatic resume follows; with a hold of 0 the
\* override never expires by itself.
C30_ManualOverride ==
    [][RelayCommandStep /\ ResumeStep /\ AutomationCommandStep /\ NoExpiryStep]_vars

\* the resume check has just sent "A" for an override whose hold ran out
C30_Witness ==
    /\ tg_pc = "fetch"
    /\ tg_hold = 10
    /\ tg_writes = <<"A">>
    /\ tg_override = NoOverride
    /\ tg_now >= 110

====
